---- MODULE Spec2Model ----
(***************************************************************************)
(* Model of the record store's order path (OrderService.createOrder) on    *)
(* top of the MongoDB session / multi-document transaction it uses.        *)
(*                                                                         *)
(* Every `await` of createOrder is a point where other requests may run,   *)
(* so each awaited storage call is one action.  The storage layer gives    *)
(* each transaction a snapshot taken at its first read, keeps its writes   *)
(* private until commit, and rejects a write to a document that another    *)
(* transaction wrote after that snapshot or has written and not yet        *)
(* finished (WriteConflict).  A storage call may also reject for reasons   *)
(* of its own (connection loss, ...); those are the *Fail actions.         *)
(* abortTransaction and endSession do not reject: the driver swallows the  *)
(* server's answer to an abort.  A commit that rejects has applied         *)
(* nothing and leaves the transaction finished, not in progress.           *)
(***************************************************************************)
EXTENDS Integers, Sequences, FiniteSets, TLC

\* ------------------------------------------------------------- bounds
MaxCalls == 2
MaxQty == 2
MaxFaults == 1
\* executeWithRetry: the largest maxAttempts a caller passes
MaxAttemptsLimit == 3
\* findAll calls and create / update calls
MaxFinds == 2
MaxStored == 3
MaxPage == 3
MaxLimit == 2
MaxWrites == 1
\* the attempt of executeWithRetry at which a backoff run may begin
MaxBackoff == 5
\* RecordService.create calls and RecordService.update calls
MaxCreates == 2
MaxUpdates == 1

\* ------------------------------------------------- program constants
\* order.schema.ts: @Prop({ required: true, min: 1, max: 1000 }) quantity
OrderQuantityMin == 1
OrderQuantityMax == 1000
\* HTTP statuses of the Nest exceptions createOrder raises
BAD_REQUEST == 400
NOT_FOUND == 404
INTERNAL_SERVER_ERROR == 500
\* Types.ObjectId.isValid: a 24 character hex string
ObjectIdLength == 24
\* RetryService.defaultConfig
DefaultMaxAttempts == 3
DefaultMaxDuration == 30000
\* calculateDelay: 1000 * 2^(attempt - 1), at most 10 seconds, jitter of 10%
BaseDelay == 1000
MaxDelay == 10000
JitterPercent == 10
\* HttpStatus.SERVICE_UNAVAILABLE
SERVICE_UNAVAILABLE == 503
\* the status of ConflictException
CONFLICT == 409
\* AppConfig.cacheTtl without CACHE_TTL, in seconds
cacheTtl == 60
\* findAll: paginationDto.page || 1, paginationDto.limit || 10
DefaultPage == 1
DefaultLimit == 10

\* --------------------------------------------------------- the inputs
Calls == 1..MaxCalls
StoredRecordId == "507f1f77bcf86cd799439011"
MissingRecordId == "507f1f77bcf86cd799439099"
InvalidRecordId == "invalid-id"
StoredRecords == {StoredRecordId}
InitialQtys == 0..MaxQty
Quantities == -1..MaxQty
\* the requests: every quantity against the stored record; the paths of an id
\* that resolves to no record, or is malformed, never read the quantity
Dtos ==
    {[recordId |-> StoredRecordId, quantity |-> q] : q \in Quantities}
        \cup {[recordId |-> MissingRecordId, quantity |-> 1],
              [recordId |-> InvalidRecordId, quantity |-> 1]}

VARIABLES
    recordQty,      \* committed qty of every stored record
    recordVersion,  \* number of committed writes to every stored record
    orders,         \* committed documents of the orders collection
    decrements,     \* how many $inc of each call reached committed storage
    initialQty,     \* qty of every stored record before any order
    pc,             \* where each createOrder call stands
    dto,            \* createOrderDto of each call
    txnState,       \* the session's transaction: none, active, committed, aborted
    sessionEnds,    \* number of endSession calls on each call's session
    record,         \* the record read inside the transaction
    txnWrites,      \* writes made inside the transaction, not yet committed
    error,          \* the error caught by createOrder's catch block
    response,       \* what the call returns or throws once pc = "done"
    before,         \* committed qty of the target record, and the orders,
                    \* when the call began
    overlapped,     \* whether another call was in flight during this call
    faults          \* number of storage calls that rejected for reasons of their own

orderVars == <<recordQty, recordVersion, orders, decrements, initialQty, pc,
               dto, txnState, sessionEnds, record, txnWrites, error, response,
               before, overlapped, faults>>

\* process.env.DISABLE_TRANSACTIONS === 'true', as createOrder's doc comment
\* names it; no statement of OrderService reads it
VARIABLES disableTransactions

\* RetryService.executeWithRetry: one call
VARIABLES
    rpc,            \* where the call stands: idle, loop, catch, sleep, done
    serviceName,    \* the label the caller passed
    config,         \* the ApiRetryConfig the caller passed
    finalConfig,    \* mergeConfig(config)
    attempt,        \* the loop variable
    elapsed,        \* Date.now() - startTime, in ms
    lastError,      \* the value the last invocation rejected with
    invocations,    \* number of calls of operation()
    isRetryable,    \* the results of isRetryableError, one per classified error
    delay,          \* the delay computed for the sleep in progress
    slept,          \* number of sleeps begun
    sleptFor,       \* the sum of the delays of the sleeps begun, in ms
    outcome         \* what the call returned or threw once rpc = "done"

retryVars == <<rpc, serviceName, config, finalConfig, attempt, elapsed, lastError,
               invocations, isRetryable, delay, slept, sleptFor,
               outcome>>

\* RecordService.findAll / create / update on top of the cache manager
VARIABLES
    client,         \* what store.getClient() gives: "keys" (a client with
                    \* keys()), "scan" (a client with scan() only) or "none"
                    \* (no client: the in-memory store)
    cacheStore,     \* the entries of the cache store: key, value, expiry
    repoVersion,    \* number of writes the records collection has seen
    fpc,            \* where each findAll call stands
    filtersDto,     \* filtersDto of each findAll call
    paginationDto,  \* paginationDto of each findAll call
    cacheKey,       \* the key each findAll call built
    result,         \* what each findAll call returns
    queries,        \* number of aggregate queries each findAll call issued
    wpc,            \* where each create / update call stands
    listed,         \* the keys client.keys or client.scan returned to each
                    \* write and client.del is to delete
    cursor,         \* per write: how far its SCAN has gone through the key
                    \* space; at the end the cursor is back to '0'
    created,        \* per write: the record it persisted (its version)
    invalidation,   \* per write: how invalidateRecordsCache has gone
    setDuring,      \* per write: a cacheManager.set resolved while its
                    \* invalidateRecordsCache ran
    seenWrites,     \* per findAll call: the writes that had returned when
                    \* it was issued
    cacheErrors,    \* per findAll call: its cache operations that rejected
    disturbed,      \* per findAll call: since it began a create or update has
                    \* taken a step, a cache operation has failed or the
                    \* entry of its key has expired
    raced           \* per findAll call: another findAll was in flight
                    \* while it ran

cacheVars == <<client, cacheStore, repoVersion, fpc, filtersDto,
               paginationDto, cacheKey, result, queries, wpc, listed,
               cursor, created, invalidation, setDuring, seenWrites,
               cacheErrors, disturbed, raced>>

\* RecordService.create / update on top of the records collection
VARIABLES
    records,        \* the documents of the records collection
    cpc,            \* where each create call stands
    createDto,      \* createDto of each create call
    existingRecord, \* what findByIdentifiers returned to each create call
    baseRecord,     \* base, the document each create call builds
    session,        \* the session of each create call: its transaction
                    \* (none, active, aborted, committed) and whether it ended
    createResult,   \* what each create call returned or threw
    upc,            \* where each update call stands
    updateId,       \* id of each update call
    updateDto,      \* updateDto of each update call
    loaded,         \* the document findById gave each update call, as the
                    \* call has changed it so far
    found,          \* the document findById gave each update call
    updateResult,   \* what each update call returned or threw
    providerError,  \* what getReleaseById rejected with, per create and
                    \* update call
    doneBefore,     \* the create calls that had ended when each create
                    \* call began
    invalidations   \* number of invalidateRecordsCache calls of each create
                    \* and update call

catalogVars == <<records, cpc, createDto, existingRecord, baseRecord, session,
                 createResult, upc, updateId, updateDto, loaded, found,
                 updateResult, providerError, doneBefore, invalidations>>

vars == <<orderVars, disableTransactions, retryVars, cacheVars, catalogVars>>

\* what an action of createOrder leaves alone
outsideOrders == <<disableTransactions, retryVars, cacheVars, catalogVars>>

NoDto == [recordId |-> "", quantity |-> 0]
NoRecord == [found |-> FALSE, qty |-> 0, version |-> 0]
NoError == [kind |-> "none", message |-> ""]
NoResponse == [kind |-> "none"]
NoBefore == [qty |-> 0, orders |-> {}]

InFlight(c) == pc[c] \notin {"idle", "done"}

\* requests are interchangeable: they are numbered in the order they arrive
NextToStart(c) == IF c = 1 THEN TRUE ELSE pc[c - 1] # "idle"

\* Types.ObjectId.isValid(createOrderDto.recordId)
IsValidObjectId(id) == Len(id) = ObjectIdLength

\* session.inTransaction()
InTransaction(c) == txnState[c] = "active"

\* ----------------------------------------------------------- messages
InvalidIdMessage(id) == "Invalid record ID format: " \o id
NotFoundMessage(id) == "Record with ID " \o id \o " not found"
InsufficientStockMessage_swapped(available, requested) ==
    "Insufficient stock. Available: " \o ToString(requested)
        \o ", Requested: " \o ToString(available)
InsufficientStockMessage(available, requested) ==
    "Insufficient stock. Available: " \o ToString(available)
        \o ", Requested: " \o ToString(requested)
FailedMessage(msg) == "Failed to create order: " \o msg

Exception(name, status, msg) ==
    [kind |-> name, status |-> status, message |-> msg]

\* ------------------------------------------ values of the retry service
\* a JavaScript value an operation may reject with, by the properties
\* executeWithRetry reads: an absent string property is "", an absent status
\* is 0 (every read of them in the code is a truthiness test, an equality
\* with a non-empty literal, or a ?? / ?. chain)
Undefined ==
    [type |-> "undefined", code |-> "", responseStatus |-> 0,
     dataMessage |-> "", message |-> "", text |-> "", status |-> 0]
Null == [Undefined EXCEPT !.type = "null"]
\* { unknown: 'error format' }
UnknownObject == [Undefined EXCEPT !.type = "object"]
\* { code }
TransportError(code) == [UnknownObject EXCEPT !.code = code]
\* { code, message }: an axios error without a response
AxiosNoResponse(code, message) ==
    [UnknownObject EXCEPT !.code = code, !.message = message]
\* { response: { status, data: { message } } }
AxiosError(status, dataMessage) ==
    [UnknownObject EXCEPT !.responseStatus = status,
                          !.dataMessage = dataMessage]
\* new Error(message)
NewError(message) ==
    [Undefined EXCEPT !.type = "Error", !.message = message]
\* new HttpException(message, status): response is the string, status is own
NewHttpException(message, status) ==
    [Undefined EXCEPT !.type = "HttpException", !.message = message,
                      !.status = status]
\* a rejected string
StringValue(text) == [Undefined EXCEPT !.type = "string", !.text = text]

NoConfig == [maxAttempts |-> 0, maxDuration |-> 0]
NoOutcome == [kind |-> "none"]

\* executeWithRetry has not been called
RetryIdle ==
    /\ rpc = "idle"
    /\ serviceName = ""
    /\ config = <<>>
    /\ finalConfig = NoConfig
    /\ attempt = 0
    /\ elapsed = 0
    /\ lastError = Undefined
    /\ invocations = 0
    /\ isRetryable = <<>>
    /\ delay = 0
    /\ slept = 0
    /\ sleptFor = 0
    /\ outcome = NoOutcome

\* ------------------------------------------- values of the record cache
Finds == 1..MaxFinds
Writes == 1..MaxWrites
NoKey == ""
NoResult == [kind |-> "none"]

\* no findAll, create or update has been called; the cache is empty
CacheIdle ==
    /\ client \in {"none"}
    /\ cacheStore = {}
    /\ repoVersion = 0
    /\ fpc = [c \in Finds |-> "idle"]
    /\ filtersDto = [c \in Finds |-> <<>>]
    /\ paginationDto = [c \in Finds |-> <<>>]
    /\ cacheKey = [c \in Finds |-> NoKey]
    /\ result = [c \in Finds |-> NoResult]
    /\ queries = [c \in Finds |-> 0]
    /\ wpc = [w \in Writes |-> "idle"]
    /\ listed = [w \in Writes |-> {}]
    /\ cursor = [w \in Writes |-> 0]
    /\ created = [w \in Writes |-> 0]
    /\ invalidation = [w \in Writes |-> "none"]
    /\ setDuring = [w \in Writes |-> FALSE]
    /\ seenWrites = [c \in Finds |-> {}]
    /\ cacheErrors = [c \in Finds |-> {}]
    /\ disturbed = [c \in Finds |-> FALSE]
    /\ raced = [c \in Finds |-> FALSE]

\* --------------------------------------- values of the record catalog
Creates == 1..MaxCreates
Updates == 1..MaxUpdates
\* a document of the records collection; no mbid is "", no tracklist <<>>
Document(id, artist, album, format, mbid, tracklist) ==
    [id |-> id, artist |-> artist, album |-> album, format |-> format,
     category |-> "", price |-> 0, qty |-> 0,
     mbid |-> mbid, tracklist |-> tracklist]
NoDocument == Document(0, "", "", "", "", <<>>)
\* a create request: the caller's category, price and qty are the same in
\* every request
CreateRecordRequest(artist, album, format, mbid) ==
    [artist |-> artist, album |-> album, format |-> format, mbid |-> mbid,
     category |-> "Pop", price |-> 10, qty |-> 5]
NoCreateDto ==
    [artist |-> "", album |-> "", format |-> "", mbid |-> "",
     category |-> "", price |-> 0, qty |-> 0]
\* an update request: an absent text is "", an absent price or qty is -1
NoUpdateDto ==
    [artist |-> "", album |-> "", format |-> "", price |-> -1, qty |-> -1,
     mbid |-> ""]
NoSession == [transaction |-> "none", ended |-> FALSE]
\* the existing payload of the ConflictException
Identity(r) ==
    [id |-> r.id, artist |-> r.artist, album |-> r.album,
     format |-> r.format, mbid |-> r.mbid]
\* what a call returns (kind "Record", status 0) or throws (the kind and
\* the status of the exception)
Result(kind, status, message, existing, document) ==
    [kind |-> kind, status |-> status, message |-> message,
     existing |-> existing, record |-> document]
NoneYet == Result("none", 0, "", Identity(NoDocument), NoDocument)
ReturnsRecord(document) ==
    Result("Record", 0, "", Identity(NoDocument), document)
Throws(kind, status, message) ==
    Result(kind, status, message, Identity(NoDocument), NoDocument)
\* the call numbers: creates first, then updates
CreateCall(c) == c
UpdateCall(u) == MaxCreates + u
CatalogCalls == 1..(MaxCreates + MaxUpdates)

\* no create or update has been called
NoCatalogCalls ==
    /\ cpc = [c \in Creates |-> "idle"]
    /\ createDto = [c \in Creates |-> NoCreateDto]
    /\ existingRecord = [c \in Creates |-> NoDocument]
    /\ baseRecord = [c \in Creates |-> NoDocument]
    /\ session = [c \in Creates |-> NoSession]
    /\ createResult = [c \in Creates |-> NoneYet]
    /\ upc = [u \in Updates |-> "idle"]
    /\ updateId = [u \in Updates |-> 0]
    /\ updateDto = [u \in Updates |-> NoUpdateDto]
    /\ loaded = [u \in Updates |-> NoDocument]
    /\ found = [u \in Updates |-> NoDocument]
    /\ updateResult = [u \in Updates |-> NoneYet]
    /\ providerError = [k \in CatalogCalls |-> Undefined]
    /\ doneBefore = [c \in Creates |-> {}]
    /\ invalidations = [k \in CatalogCalls |-> 0]
\* no create or update has been called; the collection is empty
CatalogIdle == records = {} /\ NoCatalogCalls

\* ---------------------------------------------------------------- Init
InitOrders ==
    /\ recordQty \in [StoredRecords -> InitialQtys]
    /\ initialQty = recordQty
    /\ recordVersion = [r \in StoredRecords |-> 0]
    /\ orders = {}
    /\ decrements = [c \in Calls |-> 0]
    /\ pc = [c \in Calls |-> "idle"]
    /\ dto = [c \in Calls |-> NoDto]
    /\ txnState = [c \in Calls |-> "none"]
    /\ sessionEnds = [c \in Calls |-> 0]
    /\ record = [c \in Calls |-> NoRecord]
    /\ txnWrites = [c \in Calls |-> <<>>]
    /\ error = [c \in Calls |-> NoError]
    /\ response = [c \in Calls |-> NoResponse]
    /\ before = [c \in Calls |-> NoBefore]
    /\ overlapped = [c \in Calls |-> FALSE]
    /\ faults = 0

\* the order path at rest: no createOrder call, the stored record out of stock
OrdersIdle ==
    /\ InitOrders
    /\ recordQty = [r \in StoredRecords |-> 0]
    /\ disableTransactions = FALSE

Init ==
    /\ InitOrders
    /\ disableTransactions = FALSE
    /\ RetryIdle
    /\ CatalogIdle
    /\ CacheIdle

\* ------------------------------------------------- OrderService helpers
\* if (record.qty < createOrderDto.quantity) { abort; throw BadRequest }
SufficientStock_unchecked(rec, quantity) == TRUE
SufficientStock(rec, quantity) == ~(rec.qty < quantity)

\* const availableQuantity = record.qty (taken before the order is saved)
AvailableQuantity_afterDecrement(rec, quantity) == rec.qty - quantity
AvailableQuantity(rec, quantity) == rec.qty

\* $inc: { qty: -createOrderDto.quantity }
QtyIncrement_none(quantity) == 0
QtyIncrement(quantity) == -quantity

\* order.save({ session }): the insert belongs to the session's transaction
SaveInSession_detached == FALSE
SaveInSession == TRUE

\* new this.orderModel({ recordId, quantity, status: 'pending', ... })
NewOrder(c) ==
    [_id |-> c, recordId |-> dto[c].recordId, quantity |-> dto[c].quantity,
     status |-> "pending"]

\* a save() that does not validate, as the mocked model of the unit tests
ValidOrder_unchecked(doc) == TRUE
\* Mongoose validation run by save(): quantity min 1, max 1000
ValidOrder(doc) ==
    /\ doc.quantity >= OrderQuantityMin
    /\ doc.quantity <= OrderQuantityMax

\* the response DTO built after the commit
OrderResponse(savedOrder, availableQuantity) ==
    [kind |-> "OrderResponseDTO", _id |-> savedOrder._id,
     recordId |-> savedOrder.recordId, quantity |-> savedOrder.quantity,
     status |-> savedOrder.status, availableQuantity |-> availableQuantity,
     sufficientStock |-> TRUE]

\* catch: error instanceof NotFoundException || error instanceof BadRequestException
IsKnownException_none(err) == FALSE
IsKnownException(err) ==
    err.kind \in {"NotFoundException", "BadRequestException"}

\* catch: if (session.inTransaction()) await session.abortTransaction()
MustAbort_never(c) == FALSE
MustAbort(c) == InTransaction(c)

\* catch: rethrow a known exception, wrap any other error as Internal
Rethrown(err) ==
    IF IsKnownException(err)
    THEN err
    ELSE Exception("InternalServerErrorException", INTERNAL_SERVER_ERROR,
                   FailedMessage(err.message))

\* ------------------------------------------------------ storage layer
\* findById(recordId).session(session): the transaction's snapshot of the record
ReadRecord(id) ==
    IF id \in StoredRecords
    THEN [found |-> TRUE, qty |-> recordQty[id], version |-> recordVersion[id]]
    ELSE NoRecord

WritesTo(writes, id) ==
    \E i \in 1..Len(writes) : writes[i].op = "inc" /\ writes[i].recordId = id

\* the update of a document written since the snapshot, or written by an
\* unfinished transaction, is rejected
WriteConflict(c) ==
    LET id == dto[c].recordId IN
    \/ recordVersion[id] # record[c].version
    \/ \E d \in Calls \ {c} : txnState[d] = "active" /\ WritesTo(txnWrites[d], id)

RECURSIVE IncTotal(_, _)
IncTotal(writes, id) ==
    IF writes = <<>> THEN 0
    ELSE (IF Head(writes).op = "inc" /\ Head(writes).recordId = id
          THEN Head(writes).by ELSE 0) + IncTotal(Tail(writes), id)

RECURSIVE IncCount(_)
IncCount(writes) ==
    IF writes = <<>> THEN 0
    ELSE (IF Head(writes).op = "inc" THEN 1 ELSE 0) + IncCount(Tail(writes))

Inserted(writes) ==
    {writes[i].doc : i \in {j \in 1..Len(writes) : writes[j].op = "insert"}}

\* the committed stock of the requested record, and the orders, as a call begins
AtStart(d) ==
    [qty |-> IF d.recordId \in StoredRecords THEN recordQty[d.recordId] ELSE 0,
     orders |-> orders]

\* ------------------------------------------------------------ actions
\* createOrder called with a recordId that is no ObjectId: BadRequest, no session
CreateOrderInvalidId(c, d) ==
    /\ pc[c] = "idle"
    /\ UNCHANGED outsideOrders
    /\ NextToStart(c)
    /\ ~IsValidObjectId(d.recordId)
    /\ dto' = [dto EXCEPT ![c] = d]
    /\ response' = [response EXCEPT ![c] =
           Exception("BadRequestException", BAD_REQUEST,
                     InvalidIdMessage(d.recordId))]
    /\ before' = [before EXCEPT ![c] = AtStart(d)]
    /\ overlapped' = [overlapped EXCEPT ![c] =
           \E f \in Calls \ {c} : InFlight(f)]
    /\ pc' = [pc EXCEPT ![c] = "done"]
    /\ UNCHANGED <<recordQty, recordVersion, orders, decrements, initialQty,
                   txnState, sessionEnds, record, txnWrites, error, faults>>

\* createOrder called with a well-formed recordId; connection.startSession()
\* rejects: outside the try, the error escapes as it is
CreateOrderNoSession(c, d) ==
    /\ pc[c] = "idle"
    /\ UNCHANGED outsideOrders
    /\ NextToStart(c)
    /\ IsValidObjectId(d.recordId)
    /\ dto' = [dto EXCEPT ![c] = d]
    /\ response' = [response EXCEPT ![c] =
           [kind |-> "Error", message |-> "startSession failed"]]
    /\ before' = [before EXCEPT ![c] = AtStart(d)]
    /\ overlapped' = [overlapped EXCEPT ![c] =
           \E f \in Calls \ {c} : InFlight(f)]
    /\ pc' = [pc EXCEPT ![c] = "done"]
    /\ faults < MaxFaults
    /\ faults' = faults + 1
    /\ UNCHANGED <<recordQty, recordVersion, orders, decrements, initialQty,
                   txnState, sessionEnds, record, txnWrites, error>>

\* createOrder called with a well-formed recordId: the session is acquired,
\* session.startTransaction() is called and the record query is issued
CreateOrder(c, d) ==
    /\ pc[c] = "idle"
    /\ UNCHANGED outsideOrders
    /\ NextToStart(c)
    /\ IsValidObjectId(d.recordId)
    /\ dto' = [dto EXCEPT ![c] = d]
    /\ before' = [before EXCEPT ![c] = AtStart(d)]
    /\ overlapped' = [e \in Calls |->
           IF e = c THEN \E f \in Calls \ {c} : InFlight(f)
           ELSE overlapped[e] \/ InFlight(e)]
    /\ txnState' = [txnState EXCEPT ![c] = "active"]
    /\ pc' = [pc EXCEPT ![c] = "findRecord"]
    /\ UNCHANGED <<recordQty, recordVersion, orders, decrements, initialQty,
                   sessionEnds, record, txnWrites, error, response, faults>>

\* the record query resolves with a record that has enough stock
FindRecord(c) ==
    /\ pc[c] = "findRecord"
    /\ UNCHANGED outsideOrders
    /\ LET rec == ReadRecord(dto[c].recordId) IN
        /\ rec.found
        /\ SufficientStock(rec, dto[c].quantity)
        /\ record' = [record EXCEPT ![c] = rec]
    /\ pc' = [pc EXCEPT ![c] = "saveOrder"]
    /\ UNCHANGED <<recordQty, recordVersion, orders, decrements, initialQty,
                   dto, txnState, sessionEnds, txnWrites, error, response,
                   before, overlapped, faults>>

\* the record query resolves with null:
\* await session.abortTransaction(); throw new NotFoundException(...)
FindRecordNotFound(c) ==
    /\ pc[c] = "findRecord"
    /\ UNCHANGED outsideOrders
    /\ LET rec == ReadRecord(dto[c].recordId) IN
        /\ ~rec.found
        /\ record' = [record EXCEPT ![c] = rec]
    /\ txnState' = [txnState EXCEPT ![c] = "aborted"]
    /\ error' = [error EXCEPT ![c] =
           Exception("NotFoundException", NOT_FOUND,
                     NotFoundMessage(dto[c].recordId))]
    /\ pc' = [pc EXCEPT ![c] = "catch"]
    /\ UNCHANGED <<recordQty, recordVersion, orders, decrements, initialQty,
                   dto, sessionEnds, txnWrites, response, before,
                   overlapped, faults>>

\* the record query resolves with a record whose qty is below the quantity:
\* await session.abortTransaction(); throw new BadRequestException(...)
FindRecordInsufficient(c) ==
    /\ pc[c] = "findRecord"
    /\ UNCHANGED outsideOrders
    /\ LET rec == ReadRecord(dto[c].recordId) IN
        /\ rec.found
        /\ ~SufficientStock(rec, dto[c].quantity)
        /\ record' = [record EXCEPT ![c] = rec]
        /\ error' = [error EXCEPT ![c] =
               Exception("BadRequestException", BAD_REQUEST,
                         InsufficientStockMessage(rec.qty, dto[c].quantity))]
    /\ txnState' = [txnState EXCEPT ![c] = "aborted"]
    /\ pc' = [pc EXCEPT ![c] = "catch"]
    /\ UNCHANGED <<recordQty, recordVersion, orders, decrements, initialQty,
                   dto, sessionEnds, txnWrites, response, before,
                   overlapped, faults>>

\* the record query rejects
FindRecordFail(c) ==
    /\ pc[c] = "findRecord"
    /\ UNCHANGED outsideOrders
    /\ error' = [error EXCEPT ![c] =
           [kind |-> "Error", message |-> "Database error"]]
    /\ pc' = [pc EXCEPT ![c] = "catch"]
    /\ faults < MaxFaults
    /\ faults' = faults + 1
    /\ UNCHANGED <<recordQty, recordVersion, orders, decrements, initialQty,
                   dto, txnState, sessionEnds, record, txnWrites, response,
                   before, overlapped>>

\* order.save({ session }) resolves: the order passed validation and is written
SaveOrder(c) ==
    /\ pc[c] = "saveOrder"
    /\ UNCHANGED outsideOrders
    /\ ValidOrder(NewOrder(c))
    /\ IF SaveInSession
       THEN /\ txnWrites' = [txnWrites EXCEPT ![c] =
                   Append(@, [op |-> "insert", doc |-> NewOrder(c)])]
            /\ UNCHANGED orders
       ELSE /\ orders' = orders \cup {NewOrder(c)}
            /\ UNCHANGED txnWrites
    /\ pc' = [pc EXCEPT ![c] = "updateQty"]
    /\ UNCHANGED <<recordQty, recordVersion, decrements, initialQty, dto,
                   txnState, sessionEnds, record, error, response, before,
                   overlapped, faults>>

\* order.save() rejects with the schema's ValidationError (quantity min / max)
SaveOrderInvalid(c) ==
    /\ pc[c] = "saveOrder"
    /\ UNCHANGED outsideOrders
    /\ ~ValidOrder(NewOrder(c))
    /\ error' = [error EXCEPT ![c] =
           [kind |-> "ValidationError",
            message |-> "Order validation failed: quantity"]]
    /\ pc' = [pc EXCEPT ![c] = "catch"]
    /\ UNCHANGED <<recordQty, recordVersion, orders, decrements, initialQty,
                   dto, txnState, sessionEnds, record, txnWrites, response,
                   before, overlapped, faults>>

\* order.save() rejects in the storage layer
SaveOrderFail(c) ==
    /\ pc[c] = "saveOrder"
    /\ UNCHANGED outsideOrders
    /\ error' = [error EXCEPT ![c] =
           [kind |-> "Error", message |-> "save failed"]]
    /\ pc' = [pc EXCEPT ![c] = "catch"]
    /\ faults < MaxFaults
    /\ faults' = faults + 1
    /\ UNCHANGED <<recordQty, recordVersion, orders, decrements, initialQty,
                   dto, txnState, sessionEnds, record, txnWrites, response,
                   before, overlapped>>

\* findByIdAndUpdate(recordId, { $inc: { qty: -quantity } }).session(session) resolves
UpdateQty(c) ==
    /\ pc[c] = "updateQty"
    /\ UNCHANGED outsideOrders
    /\ ~WriteConflict(c)
    /\ txnWrites' = [txnWrites EXCEPT ![c] =
           Append(@, [op |-> "inc", recordId |-> dto[c].recordId,
                      by |-> QtyIncrement(dto[c].quantity)])]
    /\ pc' = [pc EXCEPT ![c] = "commit"]
    /\ UNCHANGED <<recordQty, recordVersion, orders, decrements, initialQty,
                   dto, txnState, sessionEnds, record, error, response,
                   before, overlapped, faults>>

\* the update rejects because another transaction wrote the record first
UpdateQtyConflict(c) ==
    /\ pc[c] = "updateQty"
    /\ UNCHANGED outsideOrders
    /\ WriteConflict(c)
    /\ error' = [error EXCEPT ![c] =
           [kind |-> "MongoServerError", message |-> "WriteConflict"]]
    /\ pc' = [pc EXCEPT ![c] = "catch"]
    /\ UNCHANGED <<recordQty, recordVersion, orders, decrements, initialQty,
                   dto, txnState, sessionEnds, record, txnWrites, response,
                   before, overlapped, faults>>

\* the update rejects in the storage layer
UpdateQtyFail(c) ==
    /\ pc[c] = "updateQty"
    /\ UNCHANGED outsideOrders
    /\ error' = [error EXCEPT ![c] =
           [kind |-> "Error", message |-> "update failed"]]
    /\ pc' = [pc EXCEPT ![c] = "catch"]
    /\ faults < MaxFaults
    /\ faults' = faults + 1
    /\ UNCHANGED <<recordQty, recordVersion, orders, decrements, initialQty,
                   dto, txnState, sessionEnds, record, txnWrites, response,
                   before, overlapped>>

\* session.commitTransaction() resolves: the transaction's writes become
\* visible together; the response DTO is built and returned
CommitTransaction(c) ==
    /\ pc[c] = "commit"
    /\ UNCHANGED outsideOrders
    /\ orders' = orders \cup Inserted(txnWrites[c])
    /\ recordQty' = [r \in StoredRecords |->
           recordQty[r] + IncTotal(txnWrites[c], r)]
    /\ recordVersion' = [r \in StoredRecords |->
           IF WritesTo(txnWrites[c], r) THEN recordVersion[r] + 1
           ELSE recordVersion[r]]
    /\ decrements' = [decrements EXCEPT ![c] = @ + IncCount(txnWrites[c])]
    /\ txnWrites' = [txnWrites EXCEPT ![c] = <<>>]
    /\ txnState' = [txnState EXCEPT ![c] = "committed"]
    /\ response' = [response EXCEPT ![c] =
           OrderResponse(NewOrder(c),
                         AvailableQuantity(record[c], dto[c].quantity))]
    /\ pc' = [pc EXCEPT ![c] = "finally"]
    /\ UNCHANGED <<initialQty, dto, sessionEnds, record, error, before,
                   overlapped, faults>>

\* session.commitTransaction() rejects: nothing is applied, the transaction is over
CommitTransactionFail(c) ==
    /\ pc[c] = "commit"
    /\ UNCHANGED outsideOrders
    /\ txnWrites' = [txnWrites EXCEPT ![c] = <<>>]
    /\ txnState' = [txnState EXCEPT ![c] = "aborted"]
    /\ error' = [error EXCEPT ![c] =
           [kind |-> "Error", message |-> "commit failed"]]
    /\ pc' = [pc EXCEPT ![c] = "catch"]
    /\ faults < MaxFaults
    /\ faults' = faults + 1
    /\ UNCHANGED <<recordQty, recordVersion, orders, decrements, initialQty,
                   dto, sessionEnds, record, response, before, overlapped>>

\* catch (error): abort if still in a transaction, then rethrow or wrap
Catch(c) ==
    /\ pc[c] = "catch"
    /\ UNCHANGED outsideOrders
    /\ IF MustAbort(c)
       THEN /\ txnState' = [txnState EXCEPT ![c] = "aborted"]
            /\ txnWrites' = [txnWrites EXCEPT ![c] = <<>>]
       ELSE UNCHANGED <<txnState, txnWrites>>
    /\ response' = [response EXCEPT ![c] = Rethrown(error[c])]
    /\ pc' = [pc EXCEPT ![c] = "finally"]
    /\ UNCHANGED <<recordQty, recordVersion, orders, decrements, initialQty,
                   dto, sessionEnds, record, error, before, overlapped, faults>>

\* finally: await session.endSession(); the call then returns or throws
EndSession(c) ==
    /\ pc[c] = "finally"
    /\ UNCHANGED outsideOrders
    /\ sessionEnds' = [sessionEnds EXCEPT ![c] = @ + 1]
    /\ pc' = [pc EXCEPT ![c] = "done"]
    /\ UNCHANGED <<recordQty, recordVersion, orders, decrements, initialQty,
                   dto, txnState, record, txnWrites, error, response,
                   before, overlapped, faults>>

Next ==
    \/ \E c \in Calls, d \in Dtos : CreateOrderInvalidId(c, d)
    \/ \E c \in Calls, d \in Dtos : CreateOrderNoSession(c, d)
    \/ \E c \in Calls, d \in Dtos : CreateOrder(c, d)
    \/ \E c \in Calls : FindRecord(c)
    \/ \E c \in Calls : FindRecordNotFound(c)
    \/ \E c \in Calls : FindRecordInsufficient(c)
    \/ \E c \in Calls : FindRecordFail(c)
    \/ \E c \in Calls : SaveOrder(c)
    \/ \E c \in Calls : SaveOrderInvalid(c)
    \/ \E c \in Calls : SaveOrderFail(c)
    \/ \E c \in Calls : UpdateQty(c)
    \/ \E c \in Calls : UpdateQtyConflict(c)
    \/ \E c \in Calls : UpdateQtyFail(c)
    \/ \E c \in Calls : CommitTransaction(c)
    \/ \E c \in Calls : CommitTransactionFail(c)
    \/ \E c \in Calls : Catch(c)
    \/ \E c \in Calls : EndSession(c)

Spec == Init /\ [][Next]_vars

\* the same service started with DISABLE_TRANSACTIONS set or unset
InitAnyEnv ==
    /\ InitOrders
    /\ disableTransactions \in BOOLEAN
    /\ RetryIdle
    /\ CatalogIdle
    /\ CacheIdle

SpecAnyEnv == InitAnyEnv /\ [][Next]_vars

\* ------------------------------------------------ vocabulary of the claims
Done(c) == pc[c] = "done"
Succeeded(c) == Done(c) /\ response[c].kind = "OrderResponseDTO"
Failed(c) == Done(c) /\ response[c].kind # "OrderResponseDTO"
\* the call got a session (and started its transaction)
Acquired(c) == txnState[c] # "none"
\* a storage call of c rejected for a reason of its own
Faulted(c) == error[c].kind = "Error" \/ response[c].kind = "Error"
\* c ran alone and no call has begun since: storage is as c left it
Settled(c) ==
    /\ Done(c)
    /\ ~overlapped[c]
    /\ \A d \in Calls : d > c => pc[d] = "idle"
OnStoredRecord(c) == dto[c].recordId \in StoredRecords
OrdersOf(c) == {o \in orders : o._id = c}
OrdersFor(r) == {o \in orders : o.recordId = r}
InsufficientStock(c) ==
    Exception("BadRequestException", BAD_REQUEST,
              InsufficientStockMessage(record[c].qty, dto[c].quantity))
IsInternal(c) ==
    /\ response[c].kind = "InternalServerErrorException"
    /\ response[c].status = INTERNAL_SERVER_ERROR

RECURSIVE SumQuantity(_)
SumQuantity(os) ==
    IF os = {} THEN 0
    ELSE LET o == CHOOSE x \in os : TRUE
         IN o.quantity + SumQuantity(os \ {o})

TypeOK ==
    /\ \A c \in Calls :
          /\ pc[c] \in {"idle", "findRecord", "saveOrder", "updateQty",
                        "commit", "catch", "finally", "done"}
          /\ txnState[c] \in {"none", "active", "committed", "aborted"}
          /\ sessionEnds[c] \in 0..1

RECURSIVE SumRequested(_)
SumRequested(cs) ==
    IF cs = {} THEN 0
    ELSE LET c == CHOOSE x \in cs : TRUE
         IN dto[c].quantity + SumRequested(cs \ {c})

Committed(r) == {c \in Calls : txnState[c] = "committed" /\ dto[c].recordId = r}

\* C1: under every interleaving of createOrder calls on one record, the
\* quantities of the calls whose transaction committed sum to at most the qty
\* the record had before any of them, and the record's qty is never negative.
C1_NoOversell ==
    \A r \in StoredRecords :
        /\ recordQty[r] >= 0
        /\ SumRequested(Committed(r)) <= initialQty[r]

\* two overlapping calls asked for more than the stock: one committed, one did not
C1_Witness ==
    \E c, d \in Calls :
        /\ c # d /\ Done(c) /\ Done(d)
        /\ overlapped[c] /\ overlapped[d]
        /\ dto[c].recordId = StoredRecordId /\ dto[d].recordId = StoredRecordId
        /\ dto[c].quantity >= 1 /\ dto[d].quantity >= 1
        /\ dto[c].quantity + dto[d].quantity > initialQty[StoredRecordId]
        /\ txnState[c] = "committed" /\ txnState[d] = "aborted"
        /\ recordQty[StoredRecordId] = initialQty[StoredRecordId] - dto[c].quantity

\* what one createOrder that ran alone, with no storage failure, has done
Accepted(c) ==
    /\ Succeeded(c)
    /\ recordQty[dto[c].recordId] = before[c].qty - dto[c].quantity
Rejected(c) ==
    /\ Failed(c)
    /\ recordQty[dto[c].recordId] = before[c].qty
    /\ orders = before[c].orders
\* every call so far ran alone: the stock went down by each accepted quantity
Cumulative ==
    (\A c \in Calls : pc[c] = "idle" \/ (Done(c) /\ ~overlapped[c]))
        => \A r \in StoredRecords :
              recordQty[r] = initialQty[r]
                  - SumRequested({c \in Calls : Succeeded(c) /\ dto[c].recordId = r})

C3_RemainderInsufficientStock ==
    \A q \in Quantities :
        ( /\ q >= 1
          /\ MaxCalls * q > initialQty[StoredRecordId]
          /\ \A c \in Calls :
                /\ Done(c) /\ Acquired(c) /\ ~Faulted(c)
                /\ dto[c] = [recordId |-> StoredRecordId, quantity |-> q] )
        => /\ Cardinality({c \in Calls : Succeeded(c)})
                 <= initialQty[StoredRecordId] \div q
           /\ \A c \in Calls :
                 ~Succeeded(c) => response[c] = InsufficientStock(c)

\* C4: the initial qty of a record is its current qty plus the quantities of
\* its persisted orders; a call has a persisted order exactly when its
\* decrement was applied, and each at most once.
C4_Conservation ==
    /\ \A r \in StoredRecords :
          initialQty[r] = recordQty[r] + SumQuantity(OrdersFor(r))
    /\ \A c \in Calls :
          /\ decrements[c] <= 1
          /\ Cardinality(OrdersOf(c)) = decrements[c]
          /\ \A o \in OrdersOf(c) :
                o = [_id |-> c, recordId |-> dto[c].recordId,
                     quantity |-> dto[c].quantity, status |-> "pending"]

\* two interleaved calls both left an order and a decrement
C4_Witness ==
    /\ Cardinality(orders) = 2
    /\ \E c \in Calls : overlapped[c] /\ decrements[c] = 1
    /\ recordQty[StoredRecordId] < initialQty[StoredRecordId]

\* C5: a createOrder that raised an error left no order and no decrement
\* (also when the order was saved and the decrement or the commit then
\* failed); one that returned left both.
C5_AllOrNothing ==
    \A c \in Calls :
        /\ Failed(c) => OrdersOf(c) = {} /\ decrements[c] = 0
        /\ (Failed(c) /\ Settled(c) /\ OnStoredRecord(c)) =>
               /\ recordQty[dto[c].recordId] = before[c].qty
               /\ orders = before[c].orders
        /\ Succeeded(c) => OrdersOf(c) # {} /\ decrements[c] = 1

\* the order was saved, the decrement made, and the commit then failed
C5_Witness ==
    \E c \in Calls :
        /\ Failed(c)
        /\ response[c].message = FailedMessage("commit failed")
        /\ OrdersOf(c) = {}

\* C6: a call that acquired a session ends it exactly once, and only after
\* its transaction was committed or aborted; a call that raises an error has
\* aborted its transaction before the error reaches the caller.
C6_SessionReleased ==
    \A c \in Calls :
        /\ sessionEnds[c] <= 1
        /\ sessionEnds[c] = 1 => txnState[c] \in {"committed", "aborted"}
        /\ (Done(c) /\ Acquired(c)) =>
               /\ sessionEnds[c] = 1
               /\ Succeeded(c) => txnState[c] = "committed"
               /\ Failed(c) => txnState[c] = "aborted"
        /\ ~Acquired(c) => sessionEnds[c] = 0

\* the record query rejected inside the transaction: aborted in the catch
\* block, then the session ended
C6_Witness ==
    \E c \in Calls :
        /\ Failed(c)
        /\ response[c].message = FailedMessage("Database error")
        /\ txnState[c] = "aborted" /\ sessionEnds[c] = 1

\* C7: createOrder with a well-formed recordId that resolves to no record
\* aborts the transaction and fails with NotFound (404); it persists no
\* order and modifies no record.
C7_NotFound ==
    \A c \in Calls :
        ( /\ Done(c) /\ Acquired(c) /\ ~Faulted(c)
          /\ IsValidObjectId(dto[c].recordId)
          /\ ~OnStoredRecord(c) )
        => /\ response[c] =
                 Exception("NotFoundException", NOT_FOUND,
                           NotFoundMessage(dto[c].recordId))
           /\ txnState[c] = "aborted"
           /\ OrdersOf(c) = {} /\ decrements[c] = 0
           /\ Settled(c) => orders = before[c].orders

\* a call for the missing id ended NotFound while the stored record kept its stock
C7_Witness ==
    \E c \in Calls :
        /\ Done(c) /\ dto[c].recordId = MissingRecordId
        /\ response[c].kind = "NotFoundException" /\ response[c].status = 404
        /\ recordQty = initialQty

\* C8: when the quantity exceeds the qty read in the transaction, createOrder
\* aborts and fails with BadRequest (400) 'Insufficient stock. Available: X,
\* Requested: Y', X the record's qty and Y the quantity; once a record is
\* fully ordered, an order of 1 fails with 'Available: 0, Requested: 1'.
C8_InsufficientStock ==
    \A c \in Calls :
        /\ (Done(c) /\ record[c].found /\ dto[c].quantity > record[c].qty) =>
               /\ response[c].kind = "BadRequestException"
               /\ response[c].status = 400
               /\ response[c].message =
                     InsufficientStockMessage(record[c].qty, dto[c].quantity)
               /\ txnState[c] = "aborted"
               /\ Settled(c) => record[c].qty = recordQty[dto[c].recordId]
        /\ ( /\ Settled(c) /\ record[c].found /\ dto[c].quantity = 1
             /\ recordQty[dto[c].recordId] = 0 /\ before[c].qty = 0 )
           => response[c].message =
                 "Insufficient stock. Available: 0, Requested: 1"

\* the whole stock was ordered, then an order of 1 was refused
C8_Witness ==
    /\ Succeeded(1) /\ dto[1].quantity = initialQty[StoredRecordId]
    /\ initialQty[StoredRecordId] >= 1
    /\ Settled(2) /\ dto[2] = [recordId |-> StoredRecordId, quantity |-> 1]
    /\ response[2] =
          Exception("BadRequestException", 400,
                    "Insufficient stock. Available: 0, Requested: 1")

\* C9: a successful createOrder returns status 'pending', the requested
\* recordId and quantity, and availableQuantity equal to the qty read in the
\* transaction, which is the record's qty before this order's decrement.
C9_ResponseBeforeDecrement ==
    \A c \in Calls :
        (pc[c] \in {"finally", "done"} /\ response[c].kind = "OrderResponseDTO")
        => /\ response[c].status = "pending"
           /\ response[c].recordId = dto[c].recordId
           /\ response[c].quantity = dto[c].quantity
           /\ response[c].availableQuantity = record[c].qty
           /\ Settled(c) =>
                 /\ response[c].availableQuantity = before[c].qty
                 /\ response[c].availableQuantity =
                       recordQty[dto[c].recordId] + dto[c].quantity

\* an order of 1 or more was returned with the stock as it was before it
C9_Witness ==
    \E c \in Calls :
        /\ Succeeded(c) /\ Settled(c) /\ dto[c].quantity >= 1
        /\ response[c].availableQuantity = initialQty[StoredRecordId]
        /\ recordQty[StoredRecordId] < initialQty[StoredRecordId]

\* C10: NotFound and BadRequest reach the caller as they were thrown; every
\* other error raised inside the transaction (failed read, save, decrement
\* or commit, schema validation, write conflict) reaches it as Internal (500).
C10_Propagation ==
    \A c \in Calls :
        (pc[c] \in {"finally", "done"} /\ error[c].kind # "none") =>
            IF error[c].kind \in {"NotFoundException", "BadRequestException"}
            THEN response[c] = error[c]
            ELSE /\ IsInternal(c)
                 /\ response[c].message = FailedMessage(error[c].message)

\* a failed decrement reached the caller as Internal
C10_Witness ==
    \E c \in Calls :
        /\ Done(c) /\ IsInternal(c)
        /\ response[c].message = FailedMessage("update failed")

\* C11: when transactions are disabled (DISABLE_TRANSACTIONS=true),
\* createOrder runs the non-transactional fallback: it starts no transaction,
\* and its order is written by the save itself, before the decrement, not by
\* a commit.
C11_FallbackWhenDisabled ==
    disableTransactions =>
        \A c \in Calls :
            /\ txnState[c] = "none"
            /\ pc[c] = "updateQty" => OrdersOf(c) # {}

\* =====================================================================
\* RetryService.executeWithRetry
\* =====================================================================

\* ---------------------------------------------------------- the inputs
ServiceNames == {"MusicBrainz", "TestService"}

\* an ApiRetryConfig is an object with maxAttempts, maxDuration, both or
\* neither; an absent config behaves as the empty object
MaxAttemptsInputs == 0..MaxAttemptsLimit
MaxDurationInputs == {0, 1500}
ApiRetryConfigs ==
    {<<>>}
        \cup {[maxAttempts |-> n] : n \in MaxAttemptsInputs}
        \cup {[maxDuration |-> d] : d \in MaxDurationInputs}
        \cup {[maxAttempts |-> n, maxDuration |-> d] :
                 n \in MaxAttemptsInputs, d \in MaxDurationInputs}

\* how long an invocation of the operation takes, in ms
OperationTimes == {1, 31000}

\* Math.random(), in thousandths
Randoms == {0, 999}

retryableCodes ==
    {"ECONNREFUSED", "ECONNRESET", "ETIMEDOUT", "EHOSTUNREACH",
     "ENETUNREACH", "ENOTFOUND"}
retryableStatuses == {408, 429, 502, 503, 504}

\* the values an operation rejects with
Rejections ==
    {TransportError(c) : c \in retryableCodes \cup {"EPIPE"}}
        \cup {AxiosError(st, "Upstream said no") :
                 st \in retryableStatuses \cup {400, 401, 403, 404, 500}}
        \cup {AxiosNoResponse("ECONNABORTED", "timeout of 5000ms exceeded"),
              NewError("Connection failed"),
              NewError("Request timeout"),
              NewError("Gateway Timeout"),
              NewHttpException("Custom error", 400),
              StringValue("String error message"),
              UnknownObject, Null, Undefined}

\* the value the k-th invocation resolves with
Data(k) == [release |-> k]

\* ------------------------------------------------------------ strings
UpperCase == "ABCDEFGHIJKLMNOPQRSTUVWXYZ"
LowerCase == "abcdefghijklmnopqrstuvwxyz"

CharAt(str, i) == SubSeq(str, i, i)

LowerChar(ch) ==
    IF \E i \in 1..Len(UpperCase) : CharAt(UpperCase, i) = ch
    THEN CharAt(LowerCase,
                CHOOSE i \in 1..Len(UpperCase) : CharAt(UpperCase, i) = ch)
    ELSE ch

\* String.prototype.toLowerCase
RECURSIVE toLowerCase(_)
toLowerCase(str) ==
    IF str = "" THEN ""
    ELSE LowerChar(CharAt(str, 1)) \o toLowerCase(SubSeq(str, 2, Len(str)))

\* String.prototype.includes
includes(str, search) ==
    \E i \in 1..(Len(str) - Len(search) + 1) :
        SubSeq(str, i, i + Len(search) - 1) = search

\* -------------------------------------------------- RetryService helpers
\* reading a property of null or undefined throws a TypeError
PropertyAccessThrows(value) == value.type \in {"null", "undefined"}

TypeError(value) ==
    [name |-> "TypeError",
     message |-> "Cannot read properties of " \o value.type]

\* mergeConfig: config?.maxAttempts ?? 3, config?.maxDuration ?? 30000
mergeConfig(cfg) ==
    [maxAttempts |->
         IF "maxAttempts" \in DOMAIN cfg THEN cfg.maxAttempts
         ELSE DefaultMaxAttempts,
     maxDuration |->
         IF "maxDuration" \in DOMAIN cfg THEN cfg.maxDuration
         ELSE DefaultMaxDuration]

\* isRetryableError: a retryable code, a retryable response status, or
\* 'timeout' in the lower-cased message
isRetryableError_caseSensitive(err) ==
    \/ err.code # "" /\ err.code \in retryableCodes
    \/ err.responseStatus # 0 /\ err.responseStatus \in retryableStatuses
    \/ includes(err.message, "timeout")
isRetryableError(err) ==
    \/ err.code # "" /\ err.code \in retryableCodes
    \/ err.responseStatus # 0 /\ err.responseStatus \in retryableStatuses
    \/ includes(toLowerCase(err.message), "timeout")

\* calculateDelay(attempt, remainingDuration), Math.random() = random / 1000.
\* The arithmetic is done in units of 1/10000 ms, where the jitter
\* random / 1000 * delay * 0.1 is the integer random * delay * 10 / 100.
Scaled(ms) == ms * 10000
calculateDelay_unclamped(att, remainingDuration, random) ==
    LET base == BaseDelay * 2 ^ (att - 1)
        jittered == Scaled(base) + (random * base * JitterPercent) \div 10
        capped == IF jittered < Scaled(MaxDelay) THEN jittered
                  ELSE Scaled(MaxDelay)
    IN capped \div 10000
calculateDelay_uncapped(att, remainingDuration, random) ==
    LET base == BaseDelay * 2 ^ (att - 1)
        jittered == Scaled(base) + (random * base * JitterPercent) \div 10
    IN IF jittered > Scaled(remainingDuration)
       THEN (IF remainingDuration > 0 THEN remainingDuration ELSE 0)
       ELSE jittered \div 10000
calculateDelay(att, remainingDuration, random) ==
    LET base == BaseDelay * 2 ^ (att - 1)
        jittered == Scaled(base) + (random * base * JitterPercent) \div 10
        capped == IF jittered < Scaled(MaxDelay) THEN jittered
                  ELSE Scaled(MaxDelay)
    IN IF capped > Scaled(remainingDuration)
       THEN (IF remainingDuration > 0 THEN remainingDuration ELSE 0)
       ELSE capped \div 10000

\* createHttpException: the response status if there is one, 503 for three
\* of the transport codes, else 500; the message and the service label
HttpStatusFor(err) ==
    IF err.responseStatus # 0 THEN err.responseStatus
    ELSE IF err.code \in {"ECONNREFUSED", "ETIMEDOUT", "EHOSTUNREACH"}
         THEN SERVICE_UNAVAILABLE
         ELSE INTERNAL_SERVER_ERROR

createHttpException(err, name) ==
    [name |-> "HttpException", status |-> HttpStatusFor(err),
     response |-> [statusCode |-> HttpStatusFor(err),
                   message |-> "Failed to connect to " \o name,
                   service |-> name]]

\* throw this.createHttpException(error, serviceName): building the exception
\* reads error.response, which itself throws on null and undefined
Thrown(err, name) ==
    [kind |-> "threw",
     exception |-> IF PropertyAccessThrows(err) THEN TypeError(err)
                   ELSE createHttpException(err, name)]

\* for (attempt = 1; attempt <= maxAttempts; ...): the test that ends the loop
LoopContinues_strict(att, cfg) == att < cfg.maxAttempts
LoopContinues(att, cfg) == att <= cfg.maxAttempts

\* if (!isRetryable || attempt === finalConfig.maxAttempts)
StopsRetrying_onlyLast(retryable, att, cfg) == att = cfg.maxAttempts
StopsRetrying(retryable, att, cfg) == ~retryable \/ att = cfg.maxAttempts

\* ------------------------------------------------------------ actions
\* executeWithRetry(operation, serviceName, config) is called
ExecuteWithRetry(name, cfg) ==
    /\ rpc = "idle"
    /\ serviceName' = name
    /\ config' = cfg
    /\ finalConfig' = mergeConfig(cfg)
    /\ attempt' = 1
    /\ rpc' = "loop"
    /\ UNCHANGED <<elapsed, lastError, invocations, isRetryable, delay,
                   slept, sleptFor, outcome>>
    /\ UNCHANGED <<orderVars, disableTransactions, cacheVars, catalogVars>>

\* the value is kept, but the loop goes on to the next attempt
OperationResolves_noReturn(t) ==
    /\ rpc = "loop"
    /\ LoopContinues(attempt, finalConfig)
    /\ invocations' = invocations + 1
    /\ elapsed' = elapsed + t
    /\ outcome' = [kind |-> "returned", data |-> Data(invocations + 1)]
    /\ attempt' = attempt + 1
    /\ UNCHANGED <<rpc, serviceName, config, finalConfig, lastError,
                   isRetryable, delay, slept, sleptFor>>
    /\ UNCHANGED <<orderVars, disableTransactions, cacheVars, catalogVars>>

\* the loop test passes, operation() is called and resolves after t ms:
\* its value is returned
OperationResolves(t) ==
    /\ rpc = "loop"
    /\ LoopContinues(attempt, finalConfig)
    /\ invocations' = invocations + 1
    /\ elapsed' = elapsed + t
    /\ outcome' = [kind |-> "returned", data |-> Data(invocations + 1)]
    /\ rpc' = "done"
    /\ UNCHANGED <<serviceName, config, finalConfig, attempt, lastError, isRetryable,
                   delay, slept, sleptFor>>
    /\ UNCHANGED <<orderVars, disableTransactions, cacheVars, catalogVars>>

\* the loop test passes, operation() is called and rejects after t ms
OperationRejects(err, t) ==
    /\ rpc = "loop"
    /\ LoopContinues(attempt, finalConfig)
    /\ invocations' = invocations + 1
    /\ elapsed' = elapsed + t
    /\ lastError' = err
    /\ rpc' = "catch"
    /\ UNCHANGED <<serviceName, config, finalConfig, attempt, isRetryable, delay,
                   slept, sleptFor, outcome>>
    /\ UNCHANGED <<orderVars, disableTransactions, cacheVars, catalogVars>>

\* the loop test fails: throw this.createHttpException(lastError, serviceName)
LoopExit ==
    /\ rpc = "loop"
    /\ ~LoopContinues(attempt, finalConfig)
    /\ outcome' = Thrown(lastError, serviceName)
    /\ rpc' = "done"
    /\ UNCHANGED <<serviceName, config, finalConfig, attempt, elapsed, lastError,
                   invocations, isRetryable, delay, slept, sleptFor>>
    /\ UNCHANGED <<orderVars, disableTransactions, cacheVars, catalogVars>>

\* catch: getErrorMessage(error) reads error.response of null or undefined;
\* the TypeError leaves the catch block and the call
CatchUnreadable ==
    /\ rpc = "catch"
    /\ PropertyAccessThrows(lastError)
    /\ outcome' = [kind |-> "threw", exception |-> TypeError(lastError)]
    /\ rpc' = "done"
    /\ UNCHANGED <<serviceName, config, finalConfig, attempt, elapsed, lastError,
                   invocations, isRetryable, delay, slept, sleptFor>>
    /\ UNCHANGED <<orderVars, disableTransactions, cacheVars, catalogVars>>

\* catch: the error is not retryable, or this was the last attempt
CatchStop ==
    /\ rpc = "catch"
    /\ ~PropertyAccessThrows(lastError)
    /\ LET retryable == isRetryableError(lastError) IN
        /\ StopsRetrying(retryable, attempt, finalConfig)
        /\ isRetryable' = Append(isRetryable, retryable)
    /\ outcome' = Thrown(lastError, serviceName)
    /\ rpc' = "done"
    /\ UNCHANGED <<serviceName, config, finalConfig, attempt, elapsed, lastError,
                   invocations, delay, slept, sleptFor>>
    /\ UNCHANGED <<orderVars, disableTransactions, cacheVars, catalogVars>>

\* catch: the error is retryable and attempts remain, but calculateDelay
\* returns 0 because no time remains
CatchMaxDuration(random) ==
    /\ rpc = "catch"
    /\ ~PropertyAccessThrows(lastError)
    /\ LET retryable == isRetryableError(lastError) IN
        /\ ~StopsRetrying(retryable, attempt, finalConfig)
        /\ isRetryable' = Append(isRetryable, retryable)
    /\ calculateDelay(attempt, finalConfig.maxDuration - elapsed, random) <= 0
    /\ outcome' = Thrown(lastError, serviceName)
    /\ rpc' = "done"
    /\ UNCHANGED <<serviceName, config, finalConfig, attempt, elapsed, lastError,
                   invocations, delay, slept, sleptFor>>
    /\ UNCHANGED <<orderVars, disableTransactions, cacheVars, catalogVars>>

\* catch: the error is retryable, attempts and time remain: sleep(delay) begins
CatchRetry(random) ==
    /\ rpc = "catch"
    /\ ~PropertyAccessThrows(lastError)
    /\ LET retryable == isRetryableError(lastError) IN
        /\ ~StopsRetrying(retryable, attempt, finalConfig)
        /\ isRetryable' = Append(isRetryable, retryable)
    /\ LET d == calculateDelay(attempt, finalConfig.maxDuration - elapsed,
                               random) IN
        /\ d > 0
        /\ delay' = d
    /\ slept' = slept + 1
    /\ sleptFor' = sleptFor + delay'
    /\ rpc' = "sleep"
    /\ UNCHANGED <<serviceName, config, finalConfig, attempt, elapsed, lastError,
                   invocations, outcome>>
    /\ UNCHANGED <<orderVars, disableTransactions, cacheVars, catalogVars>>

\* the timer fires and the call begins again from its first attempt
Sleep_startsOver ==
    /\ rpc = "sleep"
    /\ elapsed' = 0
    /\ attempt' = 1
    /\ invocations' = 0
    /\ isRetryable' = <<>>
    /\ slept' = 0
    /\ sleptFor' = 0
    /\ rpc' = "loop"
    /\ UNCHANGED <<serviceName, config, finalConfig, lastError, delay,
                   outcome>>
    /\ UNCHANGED <<orderVars, disableTransactions, cacheVars, catalogVars>>

\* the timer of sleep(delay) fires; attempt++
Sleep ==
    /\ rpc = "sleep"
    /\ elapsed' = elapsed + delay
    /\ attempt' = attempt + 1
    /\ rpc' = "loop"
    /\ UNCHANGED <<serviceName, config, finalConfig, lastError, invocations,
                   isRetryable, delay, slept, sleptFor, outcome>>
    /\ UNCHANGED <<orderVars, disableTransactions, cacheVars, catalogVars>>

InitRetry ==
    /\ OrdersIdle
    /\ RetryIdle
    /\ CatalogIdle
    /\ CacheIdle

NextRetry ==
    \/ \E name \in ServiceNames, cfg \in ApiRetryConfigs :
           ExecuteWithRetry(name, cfg)
    \/ \E t \in OperationTimes : OperationResolves(t)
    \/ \E err \in Rejections, t \in OperationTimes : OperationRejects(err, t)
    \/ LoopExit
    \/ CatchUnreadable
    \/ CatchStop
    \/ \E random \in Randoms : CatchMaxDuration(random)
    \/ \E random \in Randoms : CatchRetry(random)
    \/ Sleep

SpecRetry == InitRetry /\ [][NextRetry]_vars

RetryTypeOK ==
    /\ rpc \in {"idle", "loop", "catch", "sleep", "done"}
    /\ attempt \in 0..(MaxAttemptsLimit + 1)
    /\ invocations \in 0..(MaxAttemptsLimit + 1)
    /\ delay \in 0..MaxDelay
    /\ Len(isRetryable) <= invocations

\* ----------------------------------------------- vocabulary of the claims
Returned == rpc = "done" /\ outcome.kind = "returned"
Threw == rpc = "done" /\ outcome.kind = "threw"
\* a classified failure: an HttpException
Classified(exception) == exception.name = "HttpException"
\* the last rejection has been classified by isRetryableError
LastClassified == invocations >= 1 /\ Len(isRetryable) = invocations
\* every invocation so far rejected and was classified retryable
AllRetryable ==
    /\ LastClassified
    /\ \A i \in 1..Len(isRetryable) : isRetryable[i]
\* time remains in maxDuration
Remaining == finalConfig.maxDuration - elapsed

\* C12: with maxAttempts >= 1 the operation is invoked at least once and at
\* most maxAttempts times (3 when the caller sets none); when every
\* invocation fails with a retryable error and time remains, it is invoked
\* exactly maxAttempts times and a classified failure is raised.
C12_AttemptsBounded ==
    /\ "maxAttempts" \notin DOMAIN config /\ rpc # "idle" =>
           finalConfig.maxAttempts = 3
    /\ (finalConfig.maxAttempts >= 1) =>
           /\ invocations <= finalConfig.maxAttempts
           /\ rpc = "done" => invocations >= 1
           /\ (rpc = "done" /\ AllRetryable /\ Remaining > 0) =>
                  /\ invocations = finalConfig.maxAttempts
                  /\ Threw /\ Classified(outcome.exception)

\* the default configuration: three invocations rejected with ECONNRESET
C12_Witness ==
    /\ Threw /\ config = <<>> /\ invocations = 3 /\ AllRetryable
    /\ lastError = TransportError("ECONNRESET")
    /\ Remaining > 0

\* C13: when the first k - 1 invocations fail with retryable errors and the
\* k-th succeeds, the call returns the k-th invocation's value after exactly
\* k invocations and is over: nothing is invoked after the value is kept.
C13_ReturnsFirstSuccess ==
    outcome.kind = "returned" =>
        /\ rpc = "done"
        /\ invocations = Len(isRetryable) + 1
        /\ invocations <= finalConfig.maxAttempts
        /\ outcome.data = Data(invocations)
        /\ slept = invocations - 1

\* two retryable transport failures, then success at the third of 3 attempts
C13_Witness ==
    /\ Returned /\ finalConfig.maxAttempts = 3
    /\ invocations = 3 /\ isRetryable = <<TRUE, TRUE>>
    /\ lastError.code \in {"ECONNRESET", "ETIMEDOUT"}
    /\ outcome.data = Data(3)

\* the statuses the claim names as fatal
FatalStatuses == {400, 401, 403, 404}

DenotesTimeout(message) ==
    \E i \in 1..(Len(message) - 6) :
        \A j \in 1..7 :
            CharAt(message, i + j - 1)
                \in {CharAt("timeout", j), CharAt("TIMEOUT", j)}

\* the classification the claim states
ClaimedRetryable(err) ==
    \/ err.code \in {"ECONNREFUSED", "ECONNRESET", "ETIMEDOUT",
                     "EHOSTUNREACH", "ENETUNREACH", "ENOTFOUND"}
    \/ err.responseStatus \in {408, 429, 502, 503, 504}
    \/ DenotesTimeout(err.message)

\* C15: an error is classified retryable exactly when its code is one of the
\* six transport codes, or its response status is 408, 429, 502, 503 or 504,
\* or its message contains 'timeout' in any case; every other error that is
\* classified is fatal.
C15_Classification ==
    LastClassified =>
        isRetryable[Len(isRetryable)] = ClaimedRetryable(lastError)

\* 'Gateway Timeout', no code, no status: retried
C15_Witness ==
    /\ rpc = "sleep" /\ lastError = NewError("Gateway Timeout")
    /\ isRetryable = <<TRUE>>

\* C16: every classified failure carries the service label and the status:
\* the error's response status when it has one, else 503 when the error is a
\* transport failure (one of the six transport codes), else 500.
C16_StatusMapping ==
    (Threw /\ ~PropertyAccessThrows(lastError) /\ invocations >= 1) =>
        /\ outcome.exception.response.service = serviceName
        /\ outcome.exception.status =
              IF lastError.responseStatus # 0 THEN lastError.responseStatus
              ELSE IF lastError.code
                         \in {"ECONNREFUSED", "ECONNRESET", "ETIMEDOUT",
                              "EHOSTUNREACH", "ENETUNREACH", "ENOTFOUND"}
                   THEN 503
                   ELSE 500

\* C17: whatever the operation rejects with, the call ends by raising a
\* classified failure (HttpException); it returns a value only when an
\* invocation succeeded.
C17_AlwaysClassified ==
    (rpc = "done" /\ invocations >= 1) =>
        /\ outcome.kind = "threw" => Classified(outcome.exception)
        /\ outcome.kind = "returned" => Len(isRetryable) = invocations - 1

\* C18: after a retryable failure on a non-final attempt with no time
\* remaining in maxDuration, the call has raised the classified failure: no
\* sleep was begun for that failure and nothing is invoked again.
C18_NoRetryWithoutBudget ==
    ( /\ rpc \in {"sleep", "done"}
      /\ LastClassified
      /\ isRetryable[Len(isRetryable)]
      /\ attempt < finalConfig.maxAttempts
      /\ Remaining <= 0 )
    => /\ Threw /\ outcome = Thrown(lastError, serviceName)
       /\ Classified(outcome.exception)
       /\ slept = invocations - 1

\* the first invocation took longer than maxDuration and was rejected with 503
C18_Witness ==
    /\ Threw /\ invocations = 1 /\ slept = 0
    /\ finalConfig = [maxAttempts |-> 3, maxDuration |-> 1500]
    /\ elapsed = 31000
    /\ lastError = AxiosError(503, "Upstream said no")
    /\ outcome.exception.status = 503

\* =====================================================================
\* RecordService.findAll and the records cache
\* =====================================================================

\* ---------------------------------------------------------- the inputs
\* a DTO is an object: its properties in the order the caller set them.
\* An absent filter is "" and an absent page or limit is 0, which the code
\* cannot tell from undefined (?? '' then String, || 1, if (filtersDto.x)).
NoFilters == <<>>
ArtistThenFormat == << <<"artist", "A">>, <<"format", "CD">> >>
FormatThenArtist == << <<"format", "CD">>, <<"artist", "A">> >>
ArtistOnly == << <<"artist", "A">> >>
\* as the controller builds it: all five properties, in its own order
FromController ==
    << <<"q", "">>, <<"artist", "A">>, <<"album", "">>, <<"format", "CD">>,
       <<"category", "">> >>
\* filter values that contain the separators of the key
SeparatorsInQ == << <<"q", "a|artist=b">>, <<"artist", "c">> >>
SeparatorsInArtist == << <<"q", "a">>, <<"artist", "b|artist=c">> >>
NoPagination == <<>>
FirstPage == << <<"page", 1>>, <<"limit", 10>> >>
SecondPage == << <<"page", 2>>, <<"limit", 10>> >>

\* the findAll requests: filtersDto and paginationDto
FindRequests ==
    { <<NoFilters, NoPagination>>,
      <<ArtistThenFormat, FirstPage>> }

\* the arguments buildCacheKey is tried on
KeyRequests ==
    {NoFilters, ArtistOnly, ArtistThenFormat, FormatThenArtist, FromController,
     SeparatorsInQ, SeparatorsInArtist}
        \X {NoPagination, FirstPage, SecondPage}

\* obj[name], "" when the property is absent
Field(obj, name) ==
    IF \E i \in 1..Len(obj) : obj[i][1] = name
    THEN obj[CHOOSE i \in 1..Len(obj) : obj[i][1] = name][2]
    ELSE ""

\* obj[name] of a number property, 0 when it is absent
NumberField(obj, name) ==
    IF \E i \in 1..Len(obj) : obj[i][1] = name
    THEN obj[CHOOSE i \in 1..Len(obj) : obj[i][1] = name][2]
    ELSE 0

\* x || fallback, of numbers
OrElse(x, fallback) == IF x = 0 THEN fallback ELSE x

\* Array.prototype.join
RECURSIVE join(_, _)
join(parts, separator) ==
    IF parts = <<>> THEN ""
    ELSE IF Len(parts) = 1 THEN parts[1]
    ELSE parts[1] \o separator \o join(Tail(parts), separator)

\* crypto.createHash('sha1').update(raw).digest('hex'): the digest is not
\* computed; it stands as a text that differs whenever raw differs
sha1Hex(raw) == "sha1(" \o raw \o ")"

cacheKeyFields == <<"q", "artist", "album", "format", "category">>

\* the parts taken from the DTO's own properties, in the DTO's order
buildCacheKey_dtoOrder(filters, pagination) ==
    LET parts ==
            [i \in 1..Len(filters) |-> filters[i][1] \o "=" \o filters[i][2]]
                \o << "page=" \o ToString(OrElse(NumberField(pagination, "page"),
                                                 DefaultPage)),
                      "limit=" \o ToString(OrElse(NumberField(pagination, "limit"),
                                                  DefaultLimit)) >>
        raw == "records:" \o join(parts, "|")
    IN "records:" \o sha1Hex(raw)
\* buildCacheKey(filtersDto, paginationDto)
buildCacheKey(filters, pagination) ==
    LET parts ==
            [i \in 1..Len(cacheKeyFields) |->
                cacheKeyFields[i] \o "=" \o Field(filters, cacheKeyFields[i])]
                \o << "page=" \o ToString(OrElse(NumberField(pagination, "page"),
                                                 DefaultPage)),
                      "limit=" \o ToString(OrElse(NumberField(pagination, "limit"),
                                                  DefaultLimit)) >>
        raw == "records:" \o join(parts, "|")
    IN "records:" \o sha1Hex(raw)

\* the keys these requests are cached under
CacheKeys == {buildCacheKey(request[1], request[2]) : request \in FindRequests}

\* the match query and the page findAll asks the repository for
Query(filters, pagination) ==
    [artist |-> Field(filters, "artist"), album |-> Field(filters, "album"),
     format |-> Field(filters, "format"),
     category |-> Field(filters, "category"), q |-> Field(filters, "q"),
     page |-> OrElse(NumberField(pagination, "page"), DefaultPage),
     limit |-> OrElse(NumberField(pagination, "limit"), DefaultLimit)]

\* { $match: query }: the exact-match filters that are set; no request that
\* reaches the aggregate carries a q
Matches(r, query) ==
    /\ query.artist # "" => r.artist = query.artist
    /\ query.album # "" => r.album = query.album
    /\ query.format # "" => r.format = query.format
    /\ query.category # "" => r.category = query.category
\* the documents in the collection's own order, the order of insertion
RECURSIVE InOrder(_)
InOrder(docs) ==
    IF docs = {} THEN <<>>
    ELSE LET first == CHOOSE r \in docs : \A o \in docs : r.id <= o.id
         IN <<first>> \o InOrder(docs \ {first})
\* the $project stage
Projected(r) ==
    [id |-> r.id, artist |-> r.artist, album |-> r.album, price |-> r.price,
     format |-> r.format, category |-> r.category,
     tracks |-> Len(r.tracklist)]
\* const skip = (page - 1) * limit
skip(page, limit) == (page - 1) * limit
\* { $skip: skip }, { $limit: limit }
SkipLimit(docs, skipped, limit) ==
    SubSeq(docs, skipped + 1,
           IF skipped + limit < Len(docs) THEN skipped + limit ELSE Len(docs))
\* Math.ceil(total / limit), as the code has it and rounded down
totalPages_floor(total, limit) == total \div limit
totalPages(total, limit) ==
    IF total % limit = 0 THEN total \div limit ELSE (total \div limit) + 1
\* the $facet: metadata is [{ total }] or, when nothing matches, []; data is
\* the projected page
Facet(query) ==
    LET matched == InOrder({r \in records : Matches(r, query)})
    IN [metadata |-> IF matched = <<>> THEN <<>>
                     ELSE <<[total |-> Len(matched)]>>,
        data |-> [i \in DOMAIN SkipLimit(matched, skip(query.page, query.limit),
                                         query.limit) |->
                    Projected(SkipLimit(matched,
                                        skip(query.page, query.limit),
                                        query.limit)[i])]]

\* what the aggregate returns: the page of the collection as it is now
PaginatedResponse(query) ==
    LET facetResult == Facet(query)
        total == IF facetResult.metadata = <<>> THEN 0
                 ELSE facetResult.metadata[1].total
    IN [kind |-> "PaginatedResponse", query |-> query, readAt |-> repoVersion,
        data |-> facetResult.data,
        pagination |->
            [page |-> query.page, limit |-> query.limit, total |-> total,
             totalPages |-> totalPages(total, query.limit),
             hasMore |-> query.page < totalPages(total, query.limit)]]

\* ---------------------------------------------------------- cache store
\* set(cacheKey, result, { ttl: AppConfig.cacheTtl })
NewEntry(key, value) ==
    [key |-> key, value |-> value, ttl |-> cacheTtl]

\* the entries cacheManager.get(key) can return
Cached_never(key) == {}
Cached(key) == {e \in cacheStore : e.key = key}

\* a pattern that matches no key
MatchesRecords_none(key) == FALSE
\* the pattern 'records:*'
MatchesRecords(key) == SubSeq(key, 1, 8) = "records:"

\* calls are numbered in the order they arrive
NextFind(c) == IF c = 1 THEN TRUE ELSE fpc[c - 1] # "idle"
NextWrite(w) == IF w = 1 THEN TRUE ELSE wpc[w - 1] # "idle"

FindInFlight(c) == fpc[c] \notin {"idle", "done", "threw"}

\* invalidateRecordsCache of the write is running
Invalidating(w) == wpc[w] \in {"invalidate", "del", "scan", "scanDel"}

\* a create / update step or a cache failure touches every call that has begun
Disturbed == [c \in Finds |-> disturbed[c] \/ fpc[c] # "idle"]

\* the cache operations that have rejected so far
RECURSIVE FindFaults(_)
FindFaults(c) ==
    IF c = 0 THEN 0 ELSE Cardinality(cacheErrors[c]) + FindFaults(c - 1)
CacheFaults ==
    FindFaults(MaxFinds)
        + Cardinality({w \in Writes : invalidation[w] = "failed"})

\* the key space a SCAN goes through, in the order of its cursor
KeySlots ==
    << buildCacheKey(NoFilters, NoPagination),
       buildCacheKey(ArtistThenFormat, FirstPage) >>

\* ------------------------------------------------------------ actions
\* findAll(filtersDto, paginationDto) is called: the key is built and
\* cacheManager.get(cacheKey) is issued
FindAll(c, filters, pagination) ==
    /\ fpc[c] = "idle"
    /\ NextFind(c)
    /\ filtersDto' = [filtersDto EXCEPT ![c] = filters]
    /\ paginationDto' = [paginationDto EXCEPT ![c] = pagination]
    /\ cacheKey' = [cacheKey EXCEPT ![c] = buildCacheKey(filters, pagination)]
    /\ raced' = [d \in Finds |->
           IF d = c THEN \E f \in Finds \ {c} : FindInFlight(f)
           ELSE raced[d] \/ FindInFlight(d)]
    /\ seenWrites' = [seenWrites EXCEPT ![c] = {w \in Writes : wpc[w] = "done"}]
    /\ fpc' = [fpc EXCEPT ![c] = "get"]
    /\ UNCHANGED <<client, cacheStore, repoVersion, result, queries, wpc,
                   listed, cursor, created, invalidation, setDuring,
                   cacheErrors, disturbed>>
    /\ UNCHANGED <<orderVars, disableTransactions, retryVars, catalogVars>>

\* the get resolves with an entry: if (cached) return cached
CacheGetHit(c) ==
    /\ fpc[c] = "get"
    /\ \E e \in Cached(cacheKey[c]) :
           result' = [result EXCEPT ![c] = e.value]
    /\ fpc' = [fpc EXCEPT ![c] = "done"]
    /\ UNCHANGED <<client, cacheStore, repoVersion, filtersDto,
                   paginationDto, cacheKey, queries, wpc, listed, cursor,
                   created, invalidation, setDuring, seenWrites, cacheErrors,
                   disturbed, raced>>
    /\ UNCHANGED <<orderVars, disableTransactions, retryVars, catalogVars>>

\* the get resolves with nothing: the aggregate pipeline is built and issued
CacheGetMiss(c) ==
    /\ fpc[c] = "get"
    /\ Cached(cacheKey[c]) = {}
    /\ fpc' = [fpc EXCEPT ![c] = "aggregate"]
    /\ UNCHANGED <<client, cacheStore, repoVersion, filtersDto,
                   paginationDto, cacheKey, result, queries, wpc, listed,
                   cursor, created, invalidation, setDuring, seenWrites,
                   cacheErrors, disturbed, raced>>
    /\ UNCHANGED <<orderVars, disableTransactions, retryVars, catalogVars>>

\* where findAll goes when the get rejects
AfterGetFails_rethrown == "threw"
AfterGetFails == "aggregate"

\* the get rejects: the error is ignored and the aggregate is issued
CacheGetFail(c) ==
    /\ fpc[c] = "get"
    /\ CacheFaults < MaxFaults
    /\ cacheErrors' = [cacheErrors EXCEPT ![c] = @ \cup {"get"}]
    /\ disturbed' = Disturbed
    /\ fpc' = [fpc EXCEPT ![c] = AfterGetFails]
    /\ UNCHANGED <<client, cacheStore, repoVersion, filtersDto,
                   paginationDto, cacheKey, result, queries, wpc, listed,
                   cursor, created, invalidation, setDuring, seenWrites,
                   raced>>
    /\ UNCHANGED <<orderVars, disableTransactions, retryVars, catalogVars>>

\* recordModel.aggregate(pipeline).exec() resolves; the result is built and
\* cacheManager.set is issued
Aggregate(c) ==
    /\ fpc[c] = "aggregate"
    /\ result' = [result EXCEPT ![c] =
           PaginatedResponse(Query(filtersDto[c], paginationDto[c]))]
    /\ queries' = [queries EXCEPT ![c] = @ + 1]
    /\ fpc' = [fpc EXCEPT ![c] = "set"]
    /\ UNCHANGED <<client, cacheStore, repoVersion, filtersDto,
                   paginationDto, cacheKey, wpc, listed, cursor, created,
                   invalidation, setDuring, seenWrites, cacheErrors,
                   disturbed, raced>>
    /\ UNCHANGED <<orderVars, disableTransactions, retryVars, catalogVars>>

\* the set resolves: the entry replaces any entry of the key; return result
CacheSet(c) ==
    /\ fpc[c] = "set"
    /\ LET key == buildCacheKey(filtersDto[c], paginationDto[c]) IN
        cacheStore' = {e \in cacheStore : e.key # key}
                          \cup {NewEntry(key, result[c])}
    /\ setDuring' = [w \in Writes |-> setDuring[w] \/ Invalidating(w)]
    /\ fpc' = [fpc EXCEPT ![c] = "done"]
    /\ UNCHANGED <<client, repoVersion, filtersDto, paginationDto, cacheKey,
                   result, queries, wpc, listed, cursor, created,
                   invalidation, seenWrites, cacheErrors, disturbed, raced>>
    /\ UNCHANGED <<orderVars, disableTransactions, retryVars, catalogVars>>

\* the set rejects: a warning is logged; return result
CacheSetFail(c) ==
    /\ fpc[c] = "set"
    /\ CacheFaults < MaxFaults
    /\ cacheErrors' = [cacheErrors EXCEPT ![c] = @ \cup {"set"}]
    /\ disturbed' = Disturbed
    /\ fpc' = [fpc EXCEPT ![c] = "done"]
    /\ UNCHANGED <<client, cacheStore, repoVersion, filtersDto,
                   paginationDto, cacheKey, result, queries, wpc, listed,
                   cursor, created, invalidation, setDuring, seenWrites,
                   raced>>
    /\ UNCHANGED <<orderVars, disableTransactions, retryVars, catalogVars>>

\* create or update has persisted its record (create and commit, or save)
\* and calls invalidateRecordsCache
PersistRecord(w) ==
    /\ wpc[w] = "idle"
    /\ NextWrite(w)
    /\ repoVersion' = repoVersion + 1
    /\ created' = [created EXCEPT ![w] = repoVersion + 1]
    /\ disturbed' = Disturbed
    /\ wpc' = [wpc EXCEPT ![w] = "invalidate"]
    /\ UNCHANGED <<client, cacheStore, fpc, filtersDto, paginationDto,
                   cacheKey, result, queries, listed, cursor, invalidation,
                   setDuring, seenWrites, cacheErrors, raced>>
    /\ UNCHANGED <<orderVars, disableTransactions, retryVars, catalogVars>>

\* while (cursor !== '0'): the SCAN loop ends when the cursor is back
ScanEnds_afterOneBatch(reached) == TRUE
ScanEnds(reached) == reached = Len(KeySlots)

\* invalidateRecordsCache ends (how: "empty", "deleted", "reset", or "failed"
\* when it caught an error) and the write returns its record
Returns(w, how) ==
    /\ wpc' = [wpc EXCEPT ![w] = "done"]
    /\ invalidation' = [invalidation EXCEPT ![w] = how]
    /\ listed' = [listed EXCEPT ![w] = {}]
    /\ cursor' = [cursor EXCEPT ![w] = 0]

\* on a client with keys(): keys = await client.keys('records:*'); with no
\* key invalidateRecordsCache returns, else client.del(...keys) is issued
InvalidateKeys(w) ==
    /\ wpc[w] = "invalidate"
    /\ client = "keys"
    /\ LET keys == {e.key : e \in {x \in cacheStore : MatchesRecords(x.key)}} IN
        IF keys = {}
        THEN Returns(w, "empty")
        ELSE /\ listed' = [listed EXCEPT ![w] = keys]
             /\ wpc' = [wpc EXCEPT ![w] = "del"]
             /\ UNCHANGED <<cursor, invalidation>>
    /\ disturbed' = Disturbed
    /\ UNCHANGED <<client, cacheStore, repoVersion, fpc, filtersDto,
                   paginationDto, cacheKey, result, queries, created,
                   setDuring, seenWrites, cacheErrors, raced>>
    /\ UNCHANGED <<orderVars, disableTransactions, retryVars, catalogVars>>

\* client.del(...keys) resolves after keys(): invalidateRecordsCache returns
InvalidateDel(w) ==
    /\ wpc[w] = "del"
    /\ cacheStore' = {e \in cacheStore : e.key \notin listed[w]}
    /\ Returns(w, "deleted")
    /\ disturbed' = Disturbed
    /\ UNCHANGED <<client, repoVersion, fpc, filtersDto, paginationDto,
                   cacheKey, result, queries, created, setDuring, seenWrites,
                   cacheErrors, raced>>
    /\ UNCHANGED <<orderVars, disableTransactions, retryVars, catalogVars>>

\* on a client with scan() only: res = await client.scan(cursor, 'MATCH',
\* 'records:*', 'COUNT', 100) resolves with the next cursor and the matching
\* keys of the n slots it went through; with keys, client.del(...keys) is
\* issued; without, the loop ends when the cursor is back to '0'
InvalidateScan(w, n) ==
    /\ wpc[w] \in {"invalidate", "scan"}
    /\ client = "scan"
    /\ cursor[w] + n <= Len(KeySlots)
    /\ LET slots == (cursor[w] + 1)..(cursor[w] + n)
           keys == {e.key : e \in {x \in cacheStore :
                       /\ MatchesRecords(x.key)
                       /\ \E i \in slots : KeySlots[i] = x.key}}
       IN
        IF keys # {}
        THEN /\ listed' = [listed EXCEPT ![w] = keys]
             /\ cursor' = [cursor EXCEPT ![w] = @ + n]
             /\ wpc' = [wpc EXCEPT ![w] = "scanDel"]
             /\ UNCHANGED invalidation
        ELSE IF ScanEnds(cursor[w] + n)
        THEN Returns(w, IF invalidation[w] = "none" THEN "empty"
                        ELSE invalidation[w])
        ELSE /\ cursor' = [cursor EXCEPT ![w] = @ + n]
             /\ wpc' = [wpc EXCEPT ![w] = "scan"]
             /\ UNCHANGED <<listed, invalidation>>
    /\ disturbed' = Disturbed
    /\ UNCHANGED <<client, cacheStore, repoVersion, fpc, filtersDto,
                   paginationDto, cacheKey, result, queries, created,
                   setDuring, seenWrites, cacheErrors, raced>>
    /\ UNCHANGED <<orderVars, disableTransactions, retryVars, catalogVars>>

\* client.del(...keys) resolves inside the SCAN loop: while (cursor !== '0')
InvalidateScanDel(w) ==
    /\ wpc[w] = "scanDel"
    /\ cacheStore' = {e \in cacheStore : e.key \notin listed[w]}
    /\ IF ScanEnds(cursor[w])
       THEN Returns(w, "deleted")
       ELSE /\ wpc' = [wpc EXCEPT ![w] = "scan"]
            /\ invalidation' = [invalidation EXCEPT ![w] = "deleted"]
            /\ listed' = [listed EXCEPT ![w] = {}]
            /\ UNCHANGED cursor
    /\ disturbed' = Disturbed
    /\ UNCHANGED <<client, repoVersion, fpc, filtersDto, paginationDto,
                   cacheKey, result, queries, created, setDuring, seenWrites,
                   cacheErrors, raced>>
    /\ UNCHANGED <<orderVars, disableTransactions, retryVars, catalogVars>>

\* on a store without client: cacheManager.reset() resolves
InvalidateReset(w) ==
    /\ wpc[w] = "invalidate"
    /\ client = "none"
    /\ cacheStore' = {}
    /\ Returns(w, "reset")
    /\ disturbed' = Disturbed
    /\ UNCHANGED <<client, repoVersion, fpc, filtersDto, paginationDto,
                   cacheKey, result, queries, created, setDuring, seenWrites,
                   cacheErrors, raced>>
    /\ UNCHANGED <<orderVars, disableTransactions, retryVars, catalogVars>>

\* a call of invalidateRecordsCache rejects: the error is ignored and the
\* write returns its record
InvalidateFail(w) ==
    /\ Invalidating(w)
    /\ CacheFaults < MaxFaults
    /\ Returns(w, "failed")
    /\ disturbed' = Disturbed
    /\ UNCHANGED <<client, cacheStore, repoVersion, fpc, filtersDto,
                   paginationDto, cacheKey, result, queries, created,
                   setDuring, seenWrites, cacheErrors, raced>>
    /\ UNCHANGED <<orderVars, disableTransactions, retryVars, catalogVars>>

\* the time to live of the entry of a key has passed: the store drops it
Expire(key) ==
    /\ \E e \in cacheStore : e.key = key /\ e.ttl > 0
    /\ cacheStore' = {e \in cacheStore : e.key # key}
    /\ disturbed' = [c \in Finds |->
           disturbed[c] \/ (fpc[c] # "idle" /\ cacheKey[c] = key)]
    /\ UNCHANGED <<client, repoVersion, fpc, filtersDto, paginationDto,
                   cacheKey, result, queries, wpc, listed, cursor, created,
                   invalidation, setDuring, seenWrites, cacheErrors, raced>>
    /\ UNCHANGED <<orderVars, disableTransactions, retryVars, catalogVars>>

\* the application started with REDIS_URL set (a Redis client) or not
InitCache ==
    /\ OrdersIdle
    /\ RetryIdle
    /\ CatalogIdle
    /\ client \in {"keys", "scan", "none"}
    /\ cacheStore = {}
    /\ repoVersion = 0
    /\ fpc = [c \in Finds |-> "idle"]
    /\ filtersDto = [c \in Finds |-> <<>>]
    /\ paginationDto = [c \in Finds |-> <<>>]
    /\ cacheKey = [c \in Finds |-> NoKey]
    /\ result = [c \in Finds |-> NoResult]
    /\ queries = [c \in Finds |-> 0]
    /\ wpc = [w \in Writes |-> "idle"]
    /\ listed = [w \in Writes |-> {}]
    /\ cursor = [w \in Writes |-> 0]
    /\ created = [w \in Writes |-> 0]
    /\ invalidation = [w \in Writes |-> "none"]
    /\ setDuring = [w \in Writes |-> FALSE]
    /\ seenWrites = [c \in Finds |-> {}]
    /\ cacheErrors = [c \in Finds |-> {}]
    /\ disturbed = [c \in Finds |-> FALSE]
    /\ raced = [c \in Finds |-> FALSE]

NextCache ==
    \/ \E c \in Finds, request \in FindRequests :
           FindAll(c, request[1], request[2])
    \/ \E c \in Finds : CacheGetHit(c)
    \/ \E c \in Finds : CacheGetMiss(c)
    \/ \E c \in Finds : CacheGetFail(c)
    \/ \E c \in Finds : Aggregate(c)
    \/ \E c \in Finds : CacheSet(c)
    \/ \E c \in Finds : CacheSetFail(c)
    \/ \E w \in Writes : PersistRecord(w)
    \/ \E w \in Writes : InvalidateKeys(w)
    \/ \E w \in Writes : InvalidateDel(w)
    \/ \E w \in Writes, n \in 1..Len(KeySlots) : InvalidateScan(w, n)
    \/ \E w \in Writes : InvalidateScanDel(w)
    \/ \E w \in Writes : InvalidateReset(w)
    \/ \E w \in Writes : InvalidateFail(w)
    \/ \E key \in CacheKeys : Expire(key)

SpecCache == InitCache /\ [][NextCache]_vars

\* buildCacheKey alone: findAll is called and builds its key
InitKey == OrdersIdle /\ RetryIdle /\ CacheIdle /\ CatalogIdle

NextKey ==
    \E c \in Finds, request \in KeyRequests : FindAll(c, request[1], request[2])

SpecKey == InitKey /\ [][NextKey]_vars

CacheTypeOK ==
    /\ \A c \in Finds :
          /\ fpc[c] \in {"idle", "get", "aggregate", "set", "done"}
          /\ queries[c] \in 0..1
    /\ \A w \in Writes :
          /\ wpc[w] \in {"idle", "invalidate", "del", "scan", "scanDel", "done"}
          /\ invalidation[w] \in {"none", "empty", "deleted", "reset", "failed"}
          /\ cursor[w] \in 0..Len(KeySlots)
    /\ \A e \in cacheStore : MatchesRecords(e.key)
    /\ \A e, f \in cacheStore : e.key = f.key => e = f

\* =====================================================================
\* Claims about the records cache (checked under SpecKey and SpecCache)
\* =====================================================================

FindReturned(c) == fpc[c] = "done"

\* the two calls were given the same value for every filter and for page
\* and limit
SameValues(a, b) ==
    /\ \A i \in 1..Len(cacheKeyFields) :
           Field(filtersDto[a], cacheKeyFields[i])
               = Field(filtersDto[b], cacheKeyFields[i])
    /\ NumberField(paginationDto[a], "page") = NumberField(paginationDto[b], "page")
    /\ NumberField(paginationDto[a], "limit") = NumberField(paginationDto[b], "limit")

\* C19: two findAll calls given the same values of q, artist, album, format,
\* category, page and limit build the same cache key, in whatever order the
\* caller set the fields of the DTO.
C19_KeyOfValuesOnly ==
    \A a, b \in Finds :
        (a < b /\ fpc[a] # "idle" /\ fpc[b] # "idle")
            => (cacheKey[a] = cacheKey[b] \/ ~SameValues(a, b))

\* {artist:'A', format:'CD'} and {format:'CD', artist:'A'} at page 1,
\* limit 10 have been given the same key
C19_Witness ==
    \E a, b \in Finds :
        /\ filtersDto[a] = ArtistThenFormat
        /\ filtersDto[b] = FormatThenArtist
        /\ paginationDto[a] = FirstPage
        /\ paginationDto[b] = FirstPage
        /\ cacheKey[a] # NoKey
        /\ cacheKey[a] = cacheKey[b]

\* a returned before b began, both ran apart from every other findAll, and
\* since a began no create or update has taken a step, no cache operation
\* has failed and the entry of the key has not expired
InSuccession(a, b) ==
    /\ a < b
    /\ FindReturned(a)
    /\ FindReturned(b)
    /\ ~raced[a]
    /\ ~raced[b]
    /\ ~disturbed[a]

\* no earlier call had the key of this one
FirstOfItsKey(a) == \A z \in Finds : z < a => cacheKey[z] # cacheKey[a]

\* C20: within the time to live and with no create or update in between,
\* two findAll calls with the same filters and pagination query the
\* repository once: the first misses, queries and stores, the second returns
\* the stored result without a query.
C20_SecondCallHits ==
    \A a, b \in Finds :
        (InSuccession(a, b) /\ FirstOfItsKey(a) /\ SameValues(a, b))
            => /\ queries[a] = 1
               /\ queries[b] = 0
               /\ result[b] = result[a]
               /\ \E e \in cacheStore :
                      e.key = cacheKey[a] /\ e.value = result[a]

\* such a pair has run
C20_Witness ==
    \E a, b \in Finds :
        /\ InSuccession(a, b)
        /\ SameValues(a, b)
        /\ FirstOfItsKey(a)
        /\ queries[a] = 1
        /\ queries[b] = 0
        /\ result[b] = result[a]
        /\ result[b] # NoResult

\* invalidateRecordsCache of the write has run to its end without an error
Invalidated(w) ==
    wpc[w] = "done" /\ invalidation[w] \in {"empty", "deleted", "reset"}

\* the writes that returned between the call before this one and this one
NewlyReturned(b) ==
    seenWrites[b] \ (IF b = 1 THEN {} ELSE seenWrites[b - 1])

\* C21: the first findAll issued after a create or update has persisted its
\* record, invalidated the cache and returned does not serve what was read
\* from the repository before that write: it returns the collection as that
\* write left it, or later.
C21_FirstFindAfterWriteIsFresh ==
    \A b \in Finds :
        FindReturned(b) =>
            \A w \in NewlyReturned(b) :
                invalidation[w] # "failed" => result[b].readAt >= created[w]

\* the most recent write whose invalidation has completed
RECURSIVE Latest(_)
Latest(w) ==
    IF w = 0 THEN 0
    ELSE IF Invalidated(w) THEN created[w]
    ELSE Latest(w - 1)
LastInvalidated == Latest(MaxWrites)

\* C22: under every interleaving, the result a cache hit returns was not
\* read from the repository before the write of the most recent completed
\* invalidation.
C22_HitNotOlderThanInvalidation ==
    [][\A c \in Finds :
           (fpc[c] = "get" /\ fpc'[c] = "done")
               => result'[c].readAt >= LastInvalidated]_vars

\* C23: when invalidateRecordsCache completes and no cache set resolved
\* while it ran, no key with the prefix 'records:' is left in the store,
\* whether the keys were listed by KEYS, by SCAN, or the store was reset.
C23_InvalidationLeavesNoKey ==
    [][\A w \in Writes :
           (/\ Invalidating(w)
            /\ wpc'[w] = "done"
            /\ invalidation'[w] # "failed"
            /\ ~setDuring'[w])
               => \A e \in cacheStore' : ~MatchesRecords(e.key)]_vars

\* a SCAN has deleted keys, undisturbed by a set, and none is left
C23_Witness ==
    \E w \in Writes :
        /\ client = "scan"
        /\ wpc[w] = "done"
        /\ invalidation[w] = "deleted"
        /\ ~setDuring[w]
        /\ \A e \in cacheStore : ~MatchesRecords(e.key)

\* C24: no failure of a cache operation fails the caller: a findAll whose
\* get or set rejected returns the result of its repository query, and a
\* create or update whose invalidation rejected returns its persisted record.
C24_CacheFailuresSwallowed ==
    /\ \A c \in Finds :
           (cacheErrors[c] # {} /\ ~FindInFlight(c))
               => /\ fpc[c] = "done"
                  /\ queries[c] = 1
                  /\ result[c] = [result[c] EXCEPT !.kind = "PaginatedResponse"]
                  /\ result[c] # NoResult
    /\ \A w \in Writes :
           invalidation[w] = "failed" => (wpc[w] = "done" /\ created[w] > 0)

\* a findAll whose get rejected has returned what it read from the
\* repository
C24_Witness ==
    \E c \in Finds :
        /\ "get" \in cacheErrors[c]
        /\ fpc[c] = "done"
        /\ queries[c] = 1
        /\ result[c] = PaginatedResponse(Query(filtersDto[c], paginationDto[c]))

\* =====================================================================
\* RecordService.create and RecordService.update
\* =====================================================================

\* the createDto values: one artist and album, each format without mbid
\* and one request with an mbid
CreateDtos ==
    { CreateRecordRequest("X", "Y", "CD", ""),
      CreateRecordRequest("X", "Y", "VINYL", ""),
      CreateRecordRequest("X", "Y", "VINYL", "M1") }
\* the updateDto values: a format alone, and an artist, album, format,
\* price and qty together with an mbid
UpdateDtos ==
    { [NoUpdateDto EXCEPT !.format = "VINYL"],
      [artist |-> "W", album |-> "User Album", format |-> "VINYL",
       price |-> 12, qty |-> 7, mbid |-> "M2"] }
\* what getReleaseById resolves with for an mbid: the release of M1 has a
\* media format, the release of M2 has none
Release(mbid) ==
    IF mbid = "M1"
    THEN [title |-> "Abbey Road", genre |-> "Rock", format |-> "CD",
          tracks |-> <<"t1">>]
    ELSE [title |-> "Let It Be", genre |-> "Jazz", format |-> "",
          tracks |-> <<"t2">>]
\* what getReleaseById rejects with: handleError always throws an
\* HttpException; two of its statuses
ProviderErrors ==
    { NewHttpException("Release not found", NOT_FOUND),
      NewHttpException("MusicBrainz unavailable", SERVICE_UNAVAILABLE) }

\* the unique indexes { artist, album, format } and { mbid } (sparse): what
\* a write of document d is rejected for
ViolatesIndex_none(d) == FALSE
ViolatesIndex(d) ==
    \E r \in records :
        /\ r.id # d.id
        /\ \/ r.artist = d.artist /\ r.album = d.album /\ r.format = d.format
           \/ d.mbid # "" /\ r.mbid = d.mbid
DuplicateKeyMessage == "E11000 duplicate key error"

\* findByIdentifiers: the records findOne may return (none: {})
findByIdentifiers_mbidOnly(identifiersDto) ==
    IF identifiersDto.mbid # ""
    THEN { r \in records : r.mbid = identifiersDto.mbid }
    ELSE {}
findByIdentifiers(identifiersDto) ==
    IF identifiersDto.mbid # ""
    THEN { r \in records : r.mbid = identifiersDto.mbid }
    ELSE IF identifiersDto.artist # "" /\ identifiersDto.album # ""
    THEN { r \in records : /\ r.artist = identifiersDto.artist
                           /\ r.album = identifiersDto.album
                           /\ r.format = identifiersDto.format }
    ELSE {}

\* the error of the enrichment fetch, as attachProviderDataToRecord and
\* update rethrow it
ProviderFailure(err, message) ==
    IF err.type = "HttpException"
    THEN Throws("HttpException", err.status, message)
    ELSE Throws("InternalServerErrorException", INTERNAL_SERVER_ERROR,
                "Failed to fetch MBID data")
\* the catch of create: known exceptions are rethrown, others wrapped
IsKnown_anyHttp(thrown) ==
    thrown.kind \in {"NotFoundException", "BadRequestException",
                     "ConflictException", "HttpException"}
IsKnown(thrown) ==
    thrown.kind \in {"NotFoundException", "BadRequestException",
                     "ConflictException"}
CreateCatch(thrown) ==
    IF IsKnown(thrown) THEN thrown
    ELSE Throws("InternalServerErrorException", INTERNAL_SERVER_ERROR,
                "Failed to create record: " \o thrown.message)
\* the session after the catch and the finally of create
AbortedAndEnded == [transaction |-> "aborted", ended |-> TRUE]

\* what create call or update call k ended with
ResultOf(k) ==
    IF k \in Creates THEN createResult[k]
    ELSE updateResult[k - MaxCreates]
\* invalidateRecordsCache is called on the way to return created / return
\* record, and on no other way out
Invalidates_always(res) == res.kind # "none"
Invalidates(res) == res.kind = "Record"
\* the step of call k calls invalidateRecordsCache or not
Invalidation(k) ==
    invalidations' = [invalidations EXCEPT
                         ![k] = IF Invalidates(ResultOf(k)') THEN 1 ELSE @]

CreateInFlight(c) == cpc[c] \notin {"idle", "done"}
UpdateInFlight(u) == upc[u] \notin {"idle", "done"}

updateVars == <<upc, updateId, updateDto, loaded, found, updateResult>>
outsideCatalog == <<orderVars, disableTransactions, retryVars, cacheVars>>

\* create(createDto) up to the answer of findByIdentifiers, which reads
\* the collection outside the session. A record found: abortTransaction,
\* Conflict through the catch, the finally ends the session. None found:
\* base is built.
Create(c, d) ==
    /\ cpc[c] = "idle"
    /\ \A b \in Creates : b < c => cpc[b] # "idle"
    /\ createDto' = [createDto EXCEPT ![c] = d]
    /\ doneBefore' = [doneBefore EXCEPT
                        ![c] = {b \in Creates : cpc[b] = "done"}]
    /\ \/ \E r \in findByIdentifiers(d) :
            /\ existingRecord' = [existingRecord EXCEPT ![c] = r]
            /\ createResult' = [createResult EXCEPT ![c] =
                  CreateCatch(Result("ConflictException", CONFLICT,
                      "Record with these identifiers already exists",
                      Identity(r), NoDocument))]
            /\ session' = [session EXCEPT ![c] = AbortedAndEnded]
            /\ cpc' = [cpc EXCEPT ![c] = "done"]
            /\ UNCHANGED baseRecord
       \/ /\ findByIdentifiers(d) = {}
          /\ baseRecord' = [baseRecord EXCEPT ![c] =
                [Document(c, d.artist, d.album, d.format, d.mbid, <<>>)
                    EXCEPT !.category = d.category, !.price = d.price,
                           !.qty = d.qty]]
          /\ session' = [session EXCEPT ![c].transaction = "active"]
          /\ cpc' = [cpc EXCEPT ![c] = IF d.mbid # "" THEN "fetch"
                                       ELSE "insert"]
          /\ UNCHANGED <<existingRecord, createResult>>
    /\ UNCHANGED <<records, providerError, updateVars, outsideCatalog>>
    /\ Invalidation(CreateCall(c))

\* attachProviderDataToRecord: getReleaseById resolves
AttachProviderData(c) ==
    /\ cpc[c] = "fetch"
    /\ LET release == Release(createDto[c].mbid)
       IN baseRecord' = [baseRecord EXCEPT
              ![c].album = release.title,
              ![c].category = release.genre,
              ![c].format = IF release.format # "" THEN release.format
                            ELSE @,
              ![c].tracklist = release.tracks]
    /\ cpc' = [cpc EXCEPT ![c] = "insert"]
    /\ UNCHANGED <<records, createDto, existingRecord, session,
                   createResult, providerError, doneBefore, updateVars,
                   outsideCatalog>>
    /\ Invalidation(CreateCall(c))

\* attachProviderDataToRecord: getReleaseById rejects; the catch of create
\* aborts the transaction, the finally ends the session
AttachProviderDataFails(c, err) ==
    /\ cpc[c] = "fetch"
    /\ providerError' = [providerError EXCEPT ![CreateCall(c)] = err]
    /\ createResult' = [createResult EXCEPT ![c] =
          CreateCatch(ProviderFailure(err,
              "Failed to fetch data from MusicBrainz. Try again later."))]
    /\ session' = [session EXCEPT ![c] = AbortedAndEnded]
    /\ cpc' = [cpc EXCEPT ![c] = "done"]
    /\ UNCHANGED <<records, createDto, existingRecord, baseRecord,
                   doneBefore, updateVars, outsideCatalog>>
    /\ Invalidation(CreateCall(c))

\* recordModel.create(base), outside the session: the write is checked
\* against the unique indexes and is visible at once. Rejected: the catch
\* aborts the transaction and wraps the error. Written: commitTransaction
\* (of a transaction without operations), invalidateRecordsCache inside
\* its own try / catch, return created. The finally ends the session.
Insert(c) ==
    /\ cpc[c] = "insert"
    /\ IF ViolatesIndex(baseRecord[c])
       THEN /\ createResult' = [createResult EXCEPT ![c] =
                  CreateCatch(Throws("MongoServerError",
                      INTERNAL_SERVER_ERROR, DuplicateKeyMessage))]
            /\ session' = [session EXCEPT ![c] = AbortedAndEnded]
            /\ UNCHANGED records
       ELSE /\ records' = records \cup {baseRecord[c]}
            /\ createResult' = [createResult EXCEPT
                                   ![c] = ReturnsRecord(baseRecord[c])]
            /\ session' = [session EXCEPT
                  ![c] = [transaction |-> "committed", ended |-> TRUE]]
    /\ cpc' = [cpc EXCEPT ![c] = "done"]
    /\ UNCHANGED <<createDto, existingRecord, baseRecord, providerError,
                   doneBefore, updateVars, outsideCatalog>>
    /\ Invalidation(CreateCall(c))

createVars == <<cpc, createDto, existingRecord, baseRecord, session,
                createResult, doneBefore>>

\* the updatable fields of updateDto applied to the loaded record, with
\* this test for the fields that are skipped
UpdatesWith(rec, d, skipped) ==
    [f \in DOMAIN rec |->
        IF f \in {"artist", "album", "format"} /\ d[f] # "" /\ f \notin skipped
        THEN d[f]
        ELSE IF f \in {"price", "qty"} /\ d[f] # -1 THEN d[f]
        ELSE rec[f]]
\* no field is skipped
ApplyUpdates_overProvider(rec, d) == UpdatesWith(rec, d, {})
\* album, category and format are skipped when updateDto.mbid is given
ApplyUpdates(rec, d) ==
    UpdatesWith(rec, d, IF d.mbid # "" THEN {"album", "category", "format"}
                        ELSE {})

\* update(id, updateDto) up to the first await after findById
Update(u, id, d) ==
    /\ upc[u] = "idle"
    /\ \A v \in Updates : v < u => upc[v] # "idle"
    /\ updateId' = [updateId EXCEPT ![u] = id]
    /\ updateDto' = [updateDto EXCEPT ![u] = d]
    /\ IF \E r \in records : r.id = id
       THEN LET r == CHOOSE r \in records : r.id = id
            IN /\ found' = [found EXCEPT ![u] = r]
               /\ IF d.mbid # "" /\ d.mbid # r.mbid
                  THEN /\ loaded' = [loaded EXCEPT ![u] = r]
                       /\ upc' = [upc EXCEPT ![u] = "fetch"]
                  ELSE /\ loaded' = [loaded EXCEPT
                                        ![u] = ApplyUpdates(r, d)]
                       /\ upc' = [upc EXCEPT ![u] = "save"]
               /\ UNCHANGED updateResult
       ELSE /\ updateResult' = [updateResult EXCEPT ![u] =
                  Throws("NotFoundException", NOT_FOUND,
                         "Record not found")]
            /\ upc' = [upc EXCEPT ![u] = "done"]
            /\ UNCHANGED <<found, loaded>>
    /\ UNCHANGED <<records, providerError, createVars, outsideCatalog>>
    /\ Invalidation(UpdateCall(u))

\* update: getReleaseById resolves
UpdateFetch(u) ==
    /\ upc[u] = "fetch"
    /\ LET release == Release(updateDto[u].mbid)
           fetched == [loaded[u] EXCEPT
              !.album = release.title,
              !.category = release.genre,
              !.format = IF release.format # "" THEN release.format ELSE @,
              !.tracklist = release.tracks,
              !.mbid = updateDto[u].mbid]
       IN loaded' = [loaded EXCEPT
                        ![u] = ApplyUpdates(fetched, updateDto[u])]
    /\ upc' = [upc EXCEPT ![u] = "save"]
    /\ UNCHANGED <<records, updateId, updateDto, found, updateResult,
                   providerError, createVars, outsideCatalog>>
    /\ Invalidation(UpdateCall(u))

\* update: getReleaseById rejects and update rethrows
UpdateFetchFails(u, err) ==
    /\ upc[u] = "fetch"
    /\ providerError' = [providerError EXCEPT ![UpdateCall(u)] = err]
    /\ updateResult' = [updateResult EXCEPT ![u] =
          ProviderFailure(err, "Failed to fetch data from MusicBrainz")]
    /\ upc' = [upc EXCEPT ![u] = "done"]
    /\ UNCHANGED <<records, updateId, updateDto, loaded, found,
                   createVars, outsideCatalog>>
    /\ Invalidation(UpdateCall(u))

\* record.save() writes the modified paths and is checked against the
\* unique indexes; then invalidateRecordsCache inside its own try / catch
\* and return record
Save(u) ==
    /\ upc[u] = "save"
    /\ LET stored == CHOOSE r \in records : r.id = updateId[u]
           written == [f \in DOMAIN stored |->
                          IF loaded[u][f] # found[u][f] THEN loaded[u][f]
                          ELSE stored[f]]
       IN IF ViolatesIndex(written)
          THEN /\ updateResult' = [updateResult EXCEPT ![u] =
                     Throws("MongoServerError", INTERNAL_SERVER_ERROR,
                            DuplicateKeyMessage)]
               /\ UNCHANGED records
          ELSE /\ records' = (records \ {stored}) \cup {written}
               /\ updateResult' = [updateResult EXCEPT
                                      ![u] = ReturnsRecord(loaded[u])]
    /\ upc' = [upc EXCEPT ![u] = "done"]
    /\ UNCHANGED <<updateId, updateDto, loaded, found, providerError,
                   createVars, outsideCatalog>>
    /\ Invalidation(UpdateCall(u))

InitRecords == OrdersIdle /\ RetryIdle /\ CacheIdle /\ CatalogIdle

NextRecords ==
    \/ \E c \in Creates, d \in CreateDtos : Create(c, d)
    \/ \E c \in Creates : AttachProviderData(c)
    \/ \E c \in Creates, err \in ProviderErrors :
           AttachProviderDataFails(c, err)
    \/ \E c \in Creates : Insert(c)
    \/ \E u \in Updates, id \in Creates, d \in UpdateDtos : Update(u, id, d)
    \/ \E u \in Updates : UpdateFetch(u)
    \/ \E u \in Updates, err \in ProviderErrors : UpdateFetchFails(u, err)
    \/ \E u \in Updates : Save(u)

SpecRecords == InitRecords /\ [][NextRecords]_vars

RecordsTypeOK ==
    /\ \A r \in records : r.id \in Creates
    /\ \A c \in Creates :
        /\ cpc[c] \in {"idle", "fetch", "insert", "done"}
        /\ session[c].transaction \in
               {"none", "active", "aborted", "committed"}
        /\ doneBefore[c] \subseteq Creates
    /\ \A u \in Updates : upc[u] \in {"idle", "fetch", "save", "done"}

\* ---------------------------------------------------------------- C25
\* a stored record has the identifiers of a createDto: the same artist,
\* album and format and the same mbid (or none on both sides)
SameIdentifiers(d, r) ==
    /\ r.artist = d.artist
    /\ r.album = d.album
    /\ r.format = d.format
    /\ r.mbid = d.mbid
IsConflict(res) == res.kind = "ConflictException" /\ res.status = CONFLICT
\* create call b began after create call a had returned its record, no
\* other create and no update was called, and both are without mbid
CreatedTwice(a, b) ==
    /\ a \in doneBefore[b]
    /\ cpc[b] = "done"
    /\ createResult[a].kind = "Record"
    /\ \A x \in Creates \ {a, b} : cpc[x] = "idle"
    /\ \A u \in Updates : upc[u] = "idle"
    /\ createDto[a].mbid = "" /\ createDto[b].mbid = ""
    /\ createDto[a].artist = createDto[b].artist
    /\ createDto[a].album = createDto[b].album
SecondCreate ==
    \A a, b \in Creates :
        CreatedTwice(a, b) =>
            IF createDto[a].format = createDto[b].format
            THEN /\ IsConflict(createResult[b])
                 /\ createResult[b].existing =
                        Identity(createResult[a].record)
            ELSE /\ createResult[b].kind = "Record"
                 /\ createResult[b].record \in records

\* C25: when create is called and its existence check answers while a record with the
\* identifiers of the createDto is stored, create throws Conflict (409)
\* whose payload is the id and the identity of that record, the collection
\* is unchanged, the transaction is aborted and the session ended; a second
\* create of the same (artist, album, format) throws Conflict naming the
\* first record, and one with another format returns its record.
C25_ConflictOnSameIdentifiers ==
    [][/\ \A c \in Creates :
            (/\ cpc[c] = "idle" /\ cpc'[c] # "idle"
             /\ \E r \in records : SameIdentifiers(createDto'[c], r))
                => /\ cpc'[c] = "done"
                   /\ IsConflict(createResult'[c])
                   /\ \E r \in records :
                        /\ SameIdentifiers(createDto'[c], r)
                        /\ createResult'[c].existing = Identity(r)
                   /\ records' = records
                   /\ session'[c] = AbortedAndEnded
       /\ SecondCreate']_vars
C25_Witness ==
    /\ CreatedTwice(1, 2)
    /\ createDto[1] = CreateRecordRequest("X", "Y", "CD", "")
    /\ createDto[2] = createDto[1]
    /\ IsConflict(createResult[2])
    /\ createResult[2].existing.id = 1
    /\ Cardinality(records) = 1
    /\ session[2] = AbortedAndEnded

\* ---------------------------------------------------------------- C26
\* C26: at every moment no two stored records have the same (artist, album,
\* format) and no two stored records have the same mbid when they have
\* one; records without mbid are not kept apart by it.
C26_IdentityUnique ==
    \A r, q \in records :
        r # q =>
            /\ <<r.artist, r.album, r.format>> #
                   <<q.artist, q.album, q.format>>
            /\ r.mbid # "" => r.mbid # q.mbid
\* two records without mbid are stored, after creates and an update
C26_Witness ==
    /\ \E r, q \in records : r # q /\ r.mbid = "" /\ q.mbid = ""
    /\ \E u \in Updates : upc[u] = "done"

\* ---------------------------------------------------------------- C27
FetchFailed(k) == providerError[k].type = "HttpException"
\* the record of call k as it is stored (create call c writes id c, update
\* call u writes updateId[u])
StoredBy(k) ==
    IF k \in Creates THEN {r \in records : r.id = k}
    ELSE {r \in records : r.id = updateId[k - MaxCreates]}

\* C27: a create or update whose enrichment fetch the provider rejected
\* with an HttpException throws an error that carries the status of that
\* HttpException.
C27_ProviderStatusSurfaced ==
    \A k \in CatalogCalls :
        FetchFailed(k) =>
            /\ ResultOf(k).kind # "Record"
            /\ ResultOf(k).status = providerError[k].status

\* ---------------------------------------------------------------- C28
\* C28: a create or update whose enrichment fetch the provider rejected
\* returns the record all the same, stored without the provider's
\* tracklist.
C28_SucceedsWithoutTracklist ==
    \A k \in CatalogCalls :
        FetchFailed(k) =>
            /\ ResultOf(k).kind = "Record"
            /\ \E r \in StoredBy(k) : r.tracklist = <<>>

ConcurrentCreates(a, b) ==
    /\ a < b
    /\ cpc[a] = "done" /\ cpc[b] = "done"
    /\ a \notin doneBefore[b]
    /\ createDto[a] = createDto[b]
    /\ createDto[a].mbid = ""
    /\ \A x \in Creates \ {a, b} : cpc[x] = "idle"
    /\ \A u \in Updates : upc[u] = "idle"
Wins(a, b) ==
    /\ createResult[a].kind = "Record"
    /\ IsConflict(createResult[b])
    /\ createResult[b].existing = Identity(createResult[a].record)

\* C30: of two concurrent creates with the same (artist, album, format) and
\* no mbid, one returns its record and the other throws Conflict (409)
\* whose payload is the identity of the record the first one stored.
C30_ConcurrentCreatesOneWins ==
    \A a, b \in Creates :
        ConcurrentCreates(a, b) => (Wins(a, b) \/ Wins(b, a))

\* ---------------------------------------------------------------- C31
\* a stored record has the (artist, album, format) of a createDto
SameTriple(d, r) ==
    r.artist = d.artist /\ r.album = d.album /\ r.format = d.format

\* C31: when create is called with an mbid that no stored record has while
\* a stored record has the (artist, album, format) of the request, the
\* existence check answers with that record and create throws Conflict
\* without attempting the insert.
C31_FallsBackToTriple ==
    [][\A c \in Creates :
          (/\ cpc[c] = "idle" /\ cpc'[c] # "idle"
           /\ createDto'[c].mbid # ""
           /\ \A r \in records : r.mbid # createDto'[c].mbid
           /\ \E r \in records : SameTriple(createDto'[c], r))
              => /\ cpc'[c] = "done"
                 /\ IsConflict(createResult'[c])
                 /\ SameTriple(createDto'[c], existingRecord'[c])]_vars

\* ---------------------------------------------------------------- C32
\* C32: whenever the operation is invoked again (any invocation after the
\* first), the time elapsed since the first attempt began is less than
\* maxDuration.
C32_RetryStartsWithinBudget ==
    [][(invocations >= 1 /\ invocations' = invocations + 1)
          => elapsed < finalConfig.maxDuration]_vars

\* =====================================================================
\* executeWithRetry in the later attempts of a long call
\* =====================================================================

\* the configurations of a long call: more attempts than MaxBackoff, and
\* the maxDuration MusicBrainzService passes or a longer one
BackoffConfigs ==
    { [maxAttempts |-> MaxBackoff + 1, maxDuration |-> d] :
        d \in {15000, 60000} }
\* what the operation rejects with in a long call
BackoffRejections ==
    { AxiosError(503, "Upstream said no"), TransportError("ECONNRESET"),
      AxiosError(404, "Upstream said no") }

\* the call at the start of attempt n after n - 1 invocations that each
\* rejected with a retryable error after 1 ms, Math.random() being 0: the
\* time elapsed, the sum of the sleeps, the last delay, and whether every
\* one of these failures was followed by a sleep
RECURSIVE AtAttempt(_, _)
AtAttempt(n, cfg) ==
    IF n = 1
    THEN [elapsed |-> 0, sleptFor |-> 0, delay |-> 0, reached |-> TRUE]
    ELSE LET prev == AtAttempt(n - 1, cfg)
             caught == prev.elapsed + 1
             d == calculateDelay(n - 1, cfg.maxDuration - caught, 0)
         IN [elapsed |-> caught + d, sleptFor |-> prev.sleptFor + d,
             delay |-> d, reached |-> prev.reached /\ d > 0]

\* the retry loop is about to begin attempt n of a long call
InitBackoffCall ==
    \E n \in 1..MaxBackoff, cfg \in BackoffConfigs :
        /\ AtAttempt(n, cfg).reached
        /\ rpc = "loop"
        /\ serviceName = "MusicBrainz"
        /\ config = cfg
        /\ finalConfig = mergeConfig(cfg)
        /\ attempt = n
        /\ elapsed = AtAttempt(n, cfg).elapsed
        /\ lastError = IF n = 1 THEN Undefined
                       ELSE AxiosError(503, "Upstream said no")
        /\ invocations = n - 1
        /\ isRetryable = [i \in 1..(n - 1) |-> TRUE]
        /\ delay = AtAttempt(n, cfg).delay
        /\ slept = n - 1
        /\ sleptFor = AtAttempt(n, cfg).sleptFor
        /\ outcome = NoOutcome

InitBackoff == OrdersIdle /\ InitBackoffCall /\ CacheIdle /\ CatalogIdle

NextBackoff ==
    \/ \E t \in OperationTimes : OperationResolves(t)
    \/ \E err \in BackoffRejections, t \in OperationTimes :
           OperationRejects(err, t)
    \/ CatchStop
    \/ \E random \in Randoms : CatchMaxDuration(random)
    \/ \E random \in Randoms : CatchRetry(random)
    \/ Sleep

SpecBackoff == InitBackoff /\ [][NextBackoff]_vars

\* ---------------------------------------------------------------- C33
Minimum(a, b) == IF a < b THEN a ELSE b
Distance(a, b) == IF a < b THEN b - a ELSE a - b
\* min(10000, 1000 * 2^(n-1))
NominalDelay(n) == Minimum(MaxDelay, BaseDelay * 2 ^ (n - 1))

\* C33: the sleep begun after failed attempt n has a length of at most
\* 10000 ms and at most maxDuration minus the time elapsed; the delay
\* before the clamp to the remaining time is within 10% of
\* min(10000, 1000 * 2^(n-1)); the sleeps of one call add up to at most
\* maxDuration.
C33_DelayBounds ==
    [][(rpc = "catch" /\ rpc' = "sleep")
          => /\ delay' > 0
             /\ delay' <= MaxDelay
             /\ delay' <= finalConfig.maxDuration - elapsed
             /\ \A random \in Randoms :
                    10 * Distance(calculateDelay(attempt, MaxDelay, random),
                                  NominalDelay(attempt))
                        <= NominalDelay(attempt)
             /\ sleptFor' <= finalConfig.maxDuration]_vars
\* the sleep after failed attempt 5 of a long call is 10000 ms
C33_Witness ==
    /\ rpc = "sleep"
    /\ attempt = 5
    /\ delay = MaxDelay
    /\ sleptFor > MaxDelay
    /\ sleptFor <= finalConfig.maxDuration

\* ---------------------------------------------------------------- C34
\* the steps of a call that has begun are taken: every invocation of the
\* operation ends (it resolves or rejects), the timer of a sleep fires, and
\* the code between two awaits runs
OperationEnds ==
    \/ \E t \in OperationTimes : OperationResolves(t)
    \/ \E err \in Rejections, t \in OperationTimes : OperationRejects(err, t)
CatchEnds ==
    \/ CatchUnreadable
    \/ CatchStop
    \/ \E random \in Randoms : CatchMaxDuration(random)
    \/ \E random \in Randoms : CatchRetry(random)
\* WF_vars(CatchEnds), written out: in the catch block one of the four
\* actions of CatchEnds is enabled, and nowhere else
CatchFair == []<>(rpc # "catch") \/ []<><<CatchEnds>>_vars
SpecRetryFair ==
    /\ SpecRetry
    /\ WF_vars(OperationEnds)
    /\ CatchFair
    /\ WF_vars(LoopExit)
    /\ WF_vars(Sleep)

\* C34: a call of executeWithRetry whose invocations of the operation all
\* end comes to its end, having returned or thrown, whatever maxAttempts
\* and maxDuration are.
C34_Terminates == (rpc = "loop") ~> (rpc = "done")
\* a call ended after three invocations and two sleeps
C34_Witness ==
    /\ rpc = "done"
    /\ outcome.kind \in {"returned", "threw"}
    /\ invocations = 3
    /\ slept = 2

\* =====================================================================
\* the records cache after a set has raced an invalidation
\* =====================================================================

\* the entry such a race leaves: a findAll read the collection when it was
\* empty (version 0) and its set resolved after the invalidation of the
\* write that made version 1
LeftEntry(request) ==
    NewEntry(buildCacheKey(request[1], request[2]),
             [kind |-> "PaginatedResponse",
              query |-> Query(request[1], request[2]), readAt |-> 0,
              data |-> <<>>,
              pagination |->
                  [page |-> Query(request[1], request[2]).page,
                   limit |-> Query(request[1], request[2]).limit,
                   total |-> 0, totalPages |-> 0, hasMore |-> FALSE]])

\* the calls of the race have returned; the cache holds the entry they left
InitStale ==
    /\ OrdersIdle
    /\ RetryIdle
    /\ CatalogIdle
    /\ client \in {"keys", "scan", "none"}
    /\ \E request \in FindRequests : cacheStore = {LeftEntry(request)}
    /\ repoVersion = 1
    /\ fpc = [c \in Finds |-> "idle"]
    /\ filtersDto = [c \in Finds |-> <<>>]
    /\ paginationDto = [c \in Finds |-> <<>>]
    /\ cacheKey = [c \in Finds |-> NoKey]
    /\ result = [c \in Finds |-> NoResult]
    /\ queries = [c \in Finds |-> 0]
    /\ wpc = [w \in Writes |-> "idle"]
    /\ listed = [w \in Writes |-> {}]
    /\ cursor = [w \in Writes |-> 0]
    /\ created = [w \in Writes |-> 0]
    /\ invalidation = [w \in Writes |-> "none"]
    /\ setDuring = [w \in Writes |-> FALSE]
    /\ seenWrites = [c \in Finds |-> {}]
    /\ cacheErrors = [c \in Finds |-> {}]
    /\ disturbed = [c \in Finds |-> FALSE]
    /\ raced = [c \in Finds |-> FALSE]

SpecStale == InitStale /\ [][NextCache]_vars

\* ---------------------------------------------------------------- C35
\* the entry left by the race: the only one read at version 0
IsLeft(e) == e.value.readAt = 0
LeftGone == \A e \in cacheStore : ~IsLeft(e)
\* the invalidation of a later write has completed
LaterInvalidation == \E w \in Writes : Invalidated(w)

\* C35: the stale entry a raced set left is gone from the cache once its
\* TTL has expired or the invalidation of a later write has completed, and
\* stays gone; a findAll is served that entry only before both.
C35_StaleUntilInvalidationOrExpiry ==
    [][/\ LeftGone => LeftGone'
       /\ LaterInvalidation' => LeftGone'
       /\ \A c \in Finds :
            (fpc[c] = "get" /\ fpc'[c] = "done" /\ result'[c].readAt = 0)
               => ~LeftGone /\ ~LaterInvalidation]_vars
\* the first findAll was served the stale entry, a write then invalidated
\* it, and the second findAll of the same key read the collection anew
C35_Witness ==
    /\ fpc[1] = "done" /\ result[1].readAt = 0
    /\ LaterInvalidation
    /\ fpc[2] = "done" /\ cacheKey[2] = cacheKey[1]
    /\ \E w \in Writes : result[2].readAt >= created[w] /\ created[w] > 0
    /\ queries[2] = 1

\* ---------------------------------------------------------------- C36
\* the query of a call: its filters with absent as empty, its page and
\* limit after the defaults
EffectiveParameters(c) == Query(filtersDto[c], paginationDto[c])

\* C36: two findAll calls whose effective parameters differ are given
\* different cache keys, also when filter values contain '|' or '='.
C36_KeysApartForDifferentQueries ==
    \A a, b \in Finds :
        (/\ a < b /\ fpc[a] # "idle" /\ fpc[b] # "idle"
         /\ EffectiveParameters(a) # EffectiveParameters(b))
            => cacheKey[a] # cacheKey[b]

\* ---------------------------------------------------------------- C37
\* a createOrder for a quantity of 0 or less on the stored record came to
\* its end with its session and without a storage failure of its own
NonPositiveOrder(c) ==
    /\ Done(c) /\ OnStoredRecord(c) /\ Acquired(c) /\ ~Faulted(c)
    /\ dto[c].quantity <= 0

Raised(k) == ResultOf(k).kind \notin {"none", "Record"}

\* C38: the step in which a create or update throws (Conflict, NotFound,
\* enrichment failure, rejected write) leaves the records collection as it
\* was and calls no cache invalidation; a call that has thrown has stored
\* no record and has invalidated nothing.
C38_ErrorsChangeNothing ==
    [][\A k \in CatalogCalls :
          /\ (~Raised(k) /\ Raised(k)')
                => /\ records' = records
                   /\ invalidations' = invalidations
          /\ Raised(k)'
                => /\ invalidations'[k] = 0
                   /\ k \in Creates => StoredBy(k)' = {}]_vars
\* a create has thrown Conflict and an update has thrown for its enrichment
\* fetch; the one stored record is as the first create returned it
C38_Witness ==
    /\ createResult[1].kind = "Record"
    /\ IsConflict(createResult[2])
    /\ updateResult[1].kind = "HttpException"
    /\ records = {createResult[1].record}
    /\ invalidations[CreateCall(1)] = 1
    /\ invalidations[CreateCall(2)] = 0
    /\ invalidations[UpdateCall(1)] = 0

\* ---------------------------------------------------------------- C39
\* record r carries what the provider returned for mbid: its title, genre
\* and tracks, and its media format when it has one
FromProvider(r, mbid) ==
    /\ r.album = Release(mbid).title
    /\ r.category = Release(mbid).genre
    /\ r.tracklist = Release(mbid).tracks
    /\ Release(mbid).format # "" => r.format = Release(mbid).format
\* the record stored under id after the step
StoredAfter(id) == { r \in records' : r.id = id }
\* create call c inserts a record enriched for its mbid
CreateEnriched(c) ==
    /\ cpc[c] = "insert" /\ createDto[c].mbid # ""
    /\ createResult'[c].kind = "Record"
\* update call u saves a record enriched for an mbid that differs from the
\* one it found
UpdateEnriched(u) ==
    /\ upc[u] = "save" /\ updateDto[u].mbid \notin {"", found[u].mbid}
    /\ updateResult'[u].kind = "Record"

StoredDocument(i) ==
    [Document(i, "X", "Album " \o ToString(i),
              IF i % 2 = 1 THEN "CD" ELSE "VINYL", "", <<>>)
        EXCEPT !.category = "Pop", !.price = 10, !.qty = 5]
FormatOnly == << <<"format", "CD">> >>
\* a page and a limit
PageOf(p, l) == << <<"page", p>>, <<"limit", l>> >>
\* the requests: without filter, no page and limit, the first page of every
\* limit and every page of the largest limit; with a filter that matches
\* the CDs and with one that matches nothing, the first two pages
PageRequests ==
    ({NoFilters}
        \X ({NoPagination} \cup { PageOf(1, l) : l \in 1..MaxLimit }
                           \cup { PageOf(p, MaxLimit) : p \in 1..MaxPage }))
    \cup ({FormatOnly, ArtistOnly}
            \X { PageOf(p, MaxLimit) : p \in 1..2 })

InitPage ==
    /\ OrdersIdle /\ RetryIdle /\ CacheIdle /\ NoCatalogCalls
    /\ \E n \in 0..MaxStored : records = {StoredDocument(i) : i \in 1..n}

NextPage ==
    \/ \E c \in Finds, request \in PageRequests :
           FindAll(c, request[1], request[2])
    \/ \E c \in Finds : CacheGetHit(c)
    \/ \E c \in Finds : CacheGetMiss(c)
    \/ \E c \in Finds : Aggregate(c)
    \/ \E c \in Finds : CacheSet(c)

SpecPage == InitPage /\ [][NextPage]_vars

\* ---------------------------------------------------------------- C40
\* the records the request of call c matches
Matching(c) ==
    LET query == Query(filtersDto[c], paginationDto[c])
    IN { r \in records :
           \A f \in {"artist", "album", "format", "category"} :
               query[f] \in {"", r[f]} }
\* the place of the record with this id among the records call c matches
Rank(c, id) == Cardinality({ r \in Matching(c) : r.id <= id })
\* call c reads its page from the repository
Aggregates(c) == fpc[c] = "aggregate" /\ fpc'[c] = "set"

\* C40: a findAll result computed from the repository holds the matching
\* records that come after the first (page - 1) * limit of them, at most
\* limit of them and no fewer than there are; total counts the matching
\* records, totalPages is the least number of pages of limit records that
\* hold total records, hasMore is true exactly when page < totalPages, and
\* a request that matches nothing gets total 0 and hasMore false.
C40_PaginationArithmetic ==
    [][\A c \in Finds :
          Aggregates(c) =>
            LET page == result'[c].pagination.page
                limit == result'[c].pagination.limit
                total == result'[c].pagination.total
                pages == result'[c].pagination.totalPages
                data == result'[c].data
                skipped == (page - 1) * limit
            IN /\ page >= 1 /\ limit >= 1
               /\ total = Cardinality(Matching(c))
               /\ Len(data) <= limit
               /\ Len(data) < limit => skipped + Len(data) >= total
               /\ \A i \in 1..Len(data) :
                     /\ \E r \in Matching(c) : r.id = data[i].id
                     /\ Rank(c, data[i].id) = skipped + i
               /\ pages * limit >= total
               /\ (pages - 1) * limit < total
               /\ result'[c].pagination.hasMore <=> page < pages
               /\ Matching(c) = {}
                     => total = 0 /\ ~result'[c].pagination.hasMore]_vars
\* of three stored records and limit 2, the first call got page 1 (two
\* records, hasMore) and the second call computed page 2 (the third record,
\* 2 pages, no more)
C40_Witness ==
    /\ Cardinality(records) = 3
    /\ fpc[1] = "done" /\ fpc[2] = "done"
    /\ queries[1] = 1 /\ queries[2] = 1
    /\ result[1].pagination =
          [page |-> 1, limit |-> 2, total |-> 3, totalPages |-> 2,
           hasMore |-> TRUE]
    /\ Len(result[1].data) = 2
    /\ result[2].pagination =
          [page |-> 2, limit |-> 2, total |-> 3, totalPages |-> 2,
           hasMore |-> FALSE]
    /\ Len(result[2].data) = 1 /\ result[2].data[1].id = 3

====
